--------------------------- MODULE ProcessorProofs ---------------------------
(***************************************************************************)
(* The catalog and its projections for any jobs, families, workers and     *)
(* namespaces, however often runs, maintenance, rebuilds and rollbacks     *)
(* meet, fail or crash between PostgreSQL and Valkey.  The argument:       *)
(*   - no plan and no entry is ahead of its row, and one at the row's      *)
(*     revision says what the row says (Plans, Entries);                   *)
(*   - an entry lasts at least as long as the job it is about (Entries);   *)
(*   - while someone still carries an older revision of a confirmed job,   *)
(*     its entry is at the row's revision and does not expire, so that the *)
(*     late write finds it and gives way (Fenced, LateInv);                *)
(*   - only the exclusive lease moves the active namespace, and then no    *)
(*     one carries anything older (Lease).                                 *)
(*                                                                         *)
(* The processing stage for any jobs, sizes of batches and length of the   *)
(* input, whatever fails, merges or is canceled.  The argument:            *)
(*   - whatever waits for the catalog has an ID, and only the persisting   *)
(*     stage has anything waiting (Flow);                                  *)
(*   - what the run knows, or was told by the catalog, is in the catalog,  *)
(*     and what is queued for the index is what the run knows (MemoryInv); *)
(*   - without an error, what the catalog has the run knows or was told    *)
(*     last (NothingMore), and what it knows is found or queued unless the *)
(*     index refused a write (Searchable).                                 *)
(***************************************************************************)
EXTENDS MCProcessor, FiniteSetTheorems, SequenceTheorems, FunctionTheorems,
        WellFoundedInduction, TLAPS

-----------------------------------------------------------------------------
(* The catalog and its index. *)

Carries(w, j) == j \in DOMAIN plan[w]

\* The lease and the stages of the operations.
Lease ==
    /\ plan = [w \in Worker |-> plan[w]]
    /\ \A w \in Worker :
          /\ op[w] = "none" <=> pc[w] = "idle"
          /\ op[w] \in ExclusiveOp => \A x \in Worker \ {w} : op[x] = "none"
          /\ pc[w] \in {"idle", "ready"} => DOMAIN plan[w] = {}
          /\ pc[w] = "read" => op[w] = "reclassify"
          /\ pc[w] \in {"committed", "versioned", "applied"} => op[w] \in SharedOp \cup {"reclassify"}
          /\ pc[w] \in {"drafting", "published"} => op[w] = "rebuild"
          /\ pc[w] = "valid" => op[w] \in {"rebuild", "rollback"}
          /\ pc[w] \in {"drafting", "valid"} => ver[w] \in made
          /\ pc[w] = "drafting" => ver[w] \notin kept

\* Revisions are drawn in order, and only a row's own revision is confirmed.
Rows == \A j \in Job : row[j].rev <= seq /\ row[j].indexed <= row[j].rev

\* What is carried was committed; under the exclusive lease it still is what the row says.
Plans ==
    \A w \in Worker : \A j \in DOMAIN plan[w] :
        LET p == plan[w][j] IN
        /\ p.rev <= row[j].rev
        /\ p.rev = row[j].rev => p.fam = row[j].fam /\ p.exp = row[j].exp
        /\ op[w] \in ExclusiveOp => p.rev = row[j].rev

\* An entry is not ahead of its row, says at the row's revision what the row says, is complete
\* while the job is alive, and lasts, its SETs too, as long as its score; a draft's no longer.
Entry(v, j) ==
    LET m == member[v][j] IN
    /\ m.rev <= row[j].rev
    /\ m.rev = row[j].rev /\ m.keys # {} => m.keys = row[j].fam /\ index[v][j] = row[j].exp
    /\ m.rev = row[j].rev /\ Alive(j) => m.keys # {} /\ \A f \in m.keys : j \in fset[v][f]
    /\ m.keys # {} => m.until = Forever \/ m.until >= index[v][j]
    /\ \A f \in m.keys : j \in fset[v][f] => until[v][f] = Forever \/ until[v][f] >= index[v][j]
    /\ v \notin kept /\ m.keys # {} => m.until = index[v][j]
Entries == \A v \in Namespace, j \in Job : Entry(v, j)

\* The SETs of a draft expire.
DraftSets == \A v \in Namespace \ kept, f \in Family : fset[v][f] # {} => until[v][f] # Forever

\* A job is vouched for when its row is confirmed, or about to be.
Landed(w, j) == pc[w] \in {"applied", "published"} /\ Carries(w, j) /\ plan[w][j].rev = row[j].rev
Confirmed(j) == Exists(j) /\ row[j].indexed = row[j].rev
Vouched(j) == Confirmed(j) \/ \E w \in Worker : Landed(w, j)

Settled(j) == IF Alive(j) THEN member[active][j].rev = row[j].rev ELSE Shown(j) = 0
Fenced(j) == \A w \in Worker : Carries(w, j) /\ plan[w][j].rev < row[j].rev => member[active][j].rev = row[j].rev
VouchedInv == \A j \in Job : Vouched(j) => Settled(j) /\ Fenced(j)

\* What was written after a plan was made does not expire under it.
Late(w, j) == Carries(w, j) /\ member[active][j].rev > plan[w][j].rev => member[active][j].until = Forever
LateInv == \A w \in Worker, j \in Job : Late(w, j)

\* What is about to be published fits the catalog.
Fits(v, j) == IF Alive(j) THEN member[v][j].rev = row[j].rev ELSE index[v][j] <= now
ValidInv == \A w \in Worker : pc[w] = "valid" => \A j \in Job : Fits(ver[w], j)

\* The inductive invariant.
IInv == TypeOK /\ Lease /\ Rows /\ Plans /\ Entries /\ DraftSets /\ VouchedInv /\ LateInv /\ ValidInv
-----------------------------------------------------------------------------
\* The constants and the operators of the script.

LEMMA TimeFacts ==
    /\ MaxTime \in Nat /\ Lifetime \in Nat \ {0} /\ MaxRevision \in Nat /\ Forever \notin Nat
    /\ 0 \in Time /\ Time \subseteq Nat /\ \A t \in 0..MaxTime : t \in Nat /\ t \in Time /\ t + 1 \in Time /\ t + Lifetime \in Time
BY CatalogAssumption DEF Time

LEMMA NothingTypes ==
    /\ NoRow \in [rev : Nat, fam : SUBSET Family, exp : Nat, indexed : Nat] /\ NoRow.rev = 0 /\ NoRow.indexed = 0
    /\ NoMember \in [rev : Revision, keys : SUBSET Family, until : Time \cup {Forever}] /\ NoMember.rev = 0 /\ NoMember.keys = {}
    /\ DOMAIN NoPlan = {}
BY CatalogAssumption DEF NoRow, NoMember, NoPlan, Revision

LEMMA RowTypes ==
    ASSUME TypeOK, NEW j \in Job
    PROVE  /\ row[j].rev \in Revision /\ row[j].rev \in Nat /\ row[j].indexed \in Revision /\ row[j].indexed \in Nat
           /\ row[j].exp \in Nat /\ row[j].fam \subseteq Family
           /\ Exists(j) => /\ row[j] \in [rev : 1..MaxRevision, fam : {{f} : f \in Family}, exp : Time, indexed : Revision]
                           /\ Carried(j) \in Committed /\ row[j].fam # {}
           /\ ~Exists(j) => row[j] = NoRow /\ ~Alive(j)
<1>1. CASE row[j] = NoRow
  BY <1>1, CatalogAssumption DEF NoRow, Exists, Alive, AliveAt, Revision
<1>2. CASE row[j] \in [rev : 1..MaxRevision, fam : {{f} : f \in Family}, exp : Time, indexed : Revision]
  <2>1. row[j].rev \in 1..MaxRevision /\ row[j].exp \in Time /\ row[j].indexed \in Revision
    BY <1>2
  <2>2. PICK f \in Family : row[j].fam = {f}
    BY <1>2
  <2>3. Carried(j) \in Committed
    BY <2>1, <2>2 DEF Carried, Committed
  <2>4. Exists(j)
    BY <2>1, CatalogAssumption DEF Exists
  <2>5. QED
    BY <1>2, <2>1, <2>2, <2>3, <2>4, CatalogAssumption DEF Revision, Time
<1>3. QED
  BY <1>1, <1>2 DEF TypeOK

\* A set of times that is not empty has a last one.
LEMMA LastOf ==
    ASSUME NEW S \in SUBSET Time, S # {}
    PROVE  \E u \in S : \A e \in S : e <= u
<1> DEFINE R == OpToRel(<, Nat)
           K == MaxTime + Lifetime
           D == {K - e : e \in S}
<1>0. K \in Nat /\ \A e \in S : e \in Nat /\ K - e \in Nat
  BY CatalogAssumption DEF Time
<1>1. IsWellFoundedOn(R, Nat)
  BY NatLessThanWellFounded
<1>2. \A x, y \in Nat : x < y => <<x, y>> \in R
  BY DEF OpToRel
<1>3. D \subseteq Nat /\ D # {} /\ \A e \in S : K - e \in D
  BY <1>0
<1> HIDE DEF R
<1>4. PICK x \in D : \A y \in D : ~(<<y, x>> \in R)
  BY <1>1, <1>3, WFMin
<1>5. PICK u \in S : x = K - u
  BY <1>4
<1>6. ASSUME NEW e \in S PROVE e <= u
  <2>1. ~(K - e < K - u)
    BY <1>0, <1>2, <1>3, <1>4, <1>5
  <2> HIDE DEF K
  <2>2. QED
    BY <1>0, <2>1
<1>7. QED
  BY <1>6

\* EXPIRE never shortens.
LEMMA ExtendedFacts ==
    ASSUME NEW t \in Time \cup {Forever}, NEW ends \in SUBSET Time
    PROVE  /\ Extended(t, ends) \in Time \cup {Forever}
           /\ ends = {} => Extended(t, ends) = t
           /\ ends # {} => Extended(t, ends) \in Time /\ \A e \in ends : e <= Extended(t, ends)
           /\ t # Forever => Extended(t, ends) \in Time /\ t <= Extended(t, ends)
<1>1. CASE t = Forever /\ ends = {}
  BY <1>1 DEF Extended
<1>2. CASE ~(t = Forever /\ ends = {})
  <2> DEFINE all == ends \cup ({t} \ {Forever})
             u == CHOOSE x \in all : \A e \in all : e <= x
  <2>1. all \in SUBSET Time /\ all # {}
    BY <1>2
  <2>2. u \in all /\ \A e \in all : e <= u
    <3> HIDE DEF all
    <3>1. QED
      BY <2>1, LastOf
  <2>3. Extended(t, ends) = u
    BY <1>2 DEF Extended
  <2>4. ends = {} => u = t
    BY <1>2, <2>2
  <2>5. \A e \in ends : e \in all
    OBVIOUS
  <2>6. t # Forever => t \in all
    OBVIOUS
  <2> HIDE DEF u, all
  <2>7. QED
    BY <2>1, <2>2, <2>3, <2>4, <2>5, <2>6, <1>2
<1>3. QED
  BY <1>1, <1>2

\* The jobs the script writes, and those it puts into the SET of f.
Hits(v, p, draft) == {j \in DOMAIN p : Applies(v, j, p[j], draft)}
Into(v, p, draft, f) == {j \in Hits(v, p, draft) : f \in Keys(p[j])}

\* What the script does to one job.
LEMMA ScriptJob ==
    ASSUME TypeOK, NEW v \in Namespace, NEW p, DOMAIN p \subseteq Job, NEW draft \in BOOLEAN, ApplyScript(v, p, draft), NEW j \in Job
    PROVE  /\ j \notin Hits(v, p, draft) =>
                 /\ member'[v][j] = member[v][j] /\ index'[v][j] = index[v][j]
                 /\ \A f \in Family : j \in fset'[v][f] <=> j \in fset[v][f]
           /\ j \in Hits(v, p, draft) =>
                 /\ member'[v][j] = [rev |-> p[j].rev, keys |-> Keys(p[j]),
                                     until |-> IF draft THEN DraftExpiry(p[j]) ELSE Forever]
                 /\ index'[v][j] = IF p[j].exp > now THEN p[j].exp ELSE 0
                 /\ \A f \in Family : f \in Keys(p[j]) => j \in fset'[v][f]
<1> DEFINE hit == Hits(v, p, draft)
<1>1. /\ member'[v] = [k \in Job |-> IF k \in hit
             THEN [rev |-> p[k].rev, keys |-> Keys(p[k]), until |-> IF draft THEN DraftExpiry(p[k]) ELSE Forever]
             ELSE member[v][k]]
      /\ index'[v] = [k \in Job |-> IF k \in hit THEN (IF p[k].exp > now THEN p[k].exp ELSE 0) ELSE index[v][k]]
      /\ fset'[v] = [f \in Family |-> Into(v, p, draft, f) \cup
                        {k \in fset[v][f] : k \in hit => f \notin Old(v, k, draft).keys}]
  BY DEF ApplyScript, TypeOK, Hits, Into
<1> HIDE DEF hit
<1>2. \A f : j \in Into(v, p, draft, f) <=> j \in hit /\ f \in Keys(p[j])
  BY DEF Into, hit
<1>3. QED
  BY <1>1, <1>2 DEF hit

\* The other namespaces are left alone.
LEMMA ScriptElsewhere ==
    ASSUME TypeOK, NEW v \in Namespace, NEW p, NEW draft \in BOOLEAN, ApplyScript(v, p, draft), NEW u \in Namespace, u # v
    PROVE  member'[u] = member[u] /\ index'[u] = index[u] /\ fset'[u] = fset[u] /\ until'[u] = until[u]
BY DEF ApplyScript, TypeOK

\* How long a SET lasts: a write makes it permanent, a draft only prolongs it.
LEMMA ScriptSet ==
    ASSUME TypeOK, NEW v \in Namespace, NEW p, DOMAIN p \subseteq Job, \A j \in DOMAIN p : p[j] \in Committed,
           NEW draft \in BOOLEAN, ApplyScript(v, p, draft), NEW f \in Family
    PROVE  /\ until'[v][f] \in Time \cup {Forever}
           /\ fset'[v][f] \subseteq Job
           /\ fset'[v][f] # {} /\ until'[v][f] # Forever => until[v][f] # Forever \/ draft
           /\ fset'[v][f] # {} /\ until'[v][f] # Forever /\ until[v][f] # Forever => until[v][f] <= until'[v][f]
           /\ until'[v][f] # Forever /\ fset'[v][f] # {} => \A j \in Into(v, p, draft, f) : p[j].exp <= until'[v][f]
           /\ fset'[v][f] # {} /\ until'[v][f] = Forever /\ draft => until[v][f] = Forever /\ fset[v][f] # {}
<1> DEFINE in == Into(v, p, draft, f)
           ends == {p[j].exp : j \in in}
<1>1. /\ fset'[v][f] = in \cup {k \in fset[v][f] : k \in Hits(v, p, draft) => f \notin Old(v, k, draft).keys}
      /\ until'[v][f] = IF fset'[v][f] = {} \/ (in # {} /\ ~draft) THEN Forever ELSE Extended(until[v][f], ends)
  BY DEF ApplyScript, TypeOK, Hits, Into
<1>2. in \subseteq Job /\ \A j \in in : p[j].exp \in Time
  BY DEF Into, Hits, Committed
<1>3. ends \in SUBSET Time /\ (in = {} <=> ends = {}) /\ \A j \in in : p[j].exp \in ends
  BY <1>2
<1>4. until[v][f] \in Time \cup {Forever} /\ fset[v][f] \subseteq Job
  BY DEF TypeOK
<1>5. Forever \notin Time
  BY TimeFacts
<1> HIDE DEF in, ends
<1> DEFINE t == until[v][f]
<1>6. /\ Extended(t, ends) \in Time \cup {Forever}
      /\ ends = {} => Extended(t, ends) = t
      /\ ends # {} => Extended(t, ends) \in Time /\ \A e \in ends : e <= Extended(t, ends)
      /\ t # Forever => Extended(t, ends) \in Time /\ t <= Extended(t, ends)
  <2> HIDE DEF t
  <2>1. t \in Time \cup {Forever}
    BY <1>4 DEF t
  <2>2. QED
    BY <1>3, <2>1, ExtendedFacts
<1>7. fset'[v][f] \subseteq Job
  BY <1>1, <1>2, <1>4
<1>8. in = {} => fset'[v][f] \subseteq fset[v][f]
  BY <1>1
<1>9. QED
  BY <1>1, <1>3, <1>5, <1>6, <1>7, <1>8 DEF in

LEMMA CommittedFacts ==
    ASSUME NEW p \in Committed
    PROVE  /\ p.rev \in Nat \ {0} /\ p.rev \in Revision /\ p.exp \in Time /\ p.exp \in Nat
           /\ p.fam # {} /\ p.fam \subseteq Family
           /\ Keys(p) \subseteq Family /\ Keys(p) \in {{}, p.fam}
BY CatalogAssumption DEF Committed, Keys, Revision, Time
-----------------------------------------------------------------------------
\* Types.

LEMMA TypeScript ==
    ASSUME TypeOK, NEW v \in Namespace, NEW p, DOMAIN p \subseteq Job, \A j \in DOMAIN p : p[j] \in Committed,
           NEW draft \in BOOLEAN, ApplyScript(v, p, draft)
    PROVE  /\ member' \in [Namespace -> [Job -> [rev : Revision, keys : SUBSET Family, until : Time \cup {Forever}]]]
           /\ index' \in [Namespace -> [Job -> Time]]
           /\ fset' \in [Namespace -> [Family -> SUBSET Job]]
           /\ until' \in [Namespace -> [Family -> Time \cup {Forever}]]
           /\ idx' \in [Job -> SUBSET Family] /\ gen' \in BOOLEAN /\ active' \in {active, v} /\ (draft => active' = active)
<1>0. now + 1 \in Time /\ 0 \in Time
  BY TimeFacts DEF TypeOK
<1>1. \A j \in Hits(v, p, draft) : /\ j \in Job /\ p[j].rev \in Revision /\ Keys(p[j]) \subseteq Family
                                   /\ p[j].exp \in Time /\ DraftExpiry(p[j]) \in Time
  BY <1>0, CommittedFacts DEF Hits, DraftExpiry
<1>2. member' \in [Namespace -> [Job -> [rev : Revision, keys : SUBSET Family, until : Time \cup {Forever}]]]
  <2>1. member' = [member EXCEPT ![v] = [k \in Job |-> IF k \in Hits(v, p, draft)
             THEN [rev |-> p[k].rev, keys |-> Keys(p[k]), until |-> IF draft THEN DraftExpiry(p[k]) ELSE Forever]
             ELSE @[k]]]
    BY DEF ApplyScript, Hits
  <2>2. \A k \in Hits(v, p, draft) : [rev |-> p[k].rev, keys |-> Keys(p[k]), until |-> IF draft THEN DraftExpiry(p[k]) ELSE Forever]
             \in [rev : Revision, keys : SUBSET Family, until : Time \cup {Forever}]
    BY <1>1
  <2>3. QED
    BY <2>1, <2>2 DEF TypeOK
<1>3. index' \in [Namespace -> [Job -> Time]]
  <2>1. index' = [index EXCEPT ![v] = [k \in Job |->
             IF k \in Hits(v, p, draft) THEN (IF p[k].exp > now THEN p[k].exp ELSE 0) ELSE @[k]]]
    BY DEF ApplyScript, Hits
  <2>2. QED
    BY <1>0, <1>1, <2>1 DEF TypeOK
<1>4. fset' \in [Namespace -> [Family -> SUBSET Job]]
  <2>1. PICK F : fset' = [fset EXCEPT ![v] = [f \in Family |-> F[f]]]
    <3>1. fset' = [fset EXCEPT ![v] = [f \in Family |-> fset'[v][f]]]
      BY DEF ApplyScript, TypeOK
    <3>2. PICK F : F = fset'[v]
      OBVIOUS
    <3>3. QED
      BY <3>1, <3>2
  <2>2. \A f \in Family : F[f] \subseteq Job
    <3>1. \A f \in Family : fset'[v][f] = F[f]
      BY <2>1 DEF TypeOK
    <3>2. QED
      BY <3>1, ScriptSet
  <2>3. QED
    BY <2>1, <2>2 DEF TypeOK
<1>5. until' \in [Namespace -> [Family -> Time \cup {Forever}]]
  <2>1. PICK U : U = until'[v]
    OBVIOUS
  <2>2. until' = [until EXCEPT ![v] = U]
    BY <2>1 DEF ApplyScript, TypeOK
  <2>3. U \in [Family -> Time \cup {Forever}]
    <3>1. \A f \in Family : U[f] \in Time \cup {Forever}
      BY <2>1, ScriptSet
    <3>2. U = [f \in Family |-> U[f]]
      BY <2>1 DEF ApplyScript, TypeOK
    <3>3. QED
      BY <3>1, <3>2
  <2>4. QED
    BY <2>2, <2>3 DEF TypeOK
<1>6. idx' \in [Job -> SUBSET Family] /\ gen' \in BOOLEAN /\ active' \in {active, v} /\ (draft => active' = active)
  <2>1. CASE draft
    BY <2>1 DEF ApplyScript, TypeOK
  <2>2. CASE ~draft
    <3>1. /\ idx' = [j \in Job |-> IF j \in Hits(v, p, draft) THEN Keys(p[j]) ELSE idx[j]]
          /\ active' = IF Hits(v, p, draft) = {} THEN active ELSE v
          /\ gen' = IF Hits(v, p, draft) = {} THEN gen ELSE ~gen
      BY <2>2 DEF ApplyScript, Hits
    <3>2. QED
      BY <1>1, <2>2, <3>1 DEF TypeOK
  <2>3. QED
    BY <2>1, <2>2
<1>7. QED
  BY <1>2, <1>3, <1>4, <1>5, <1>6

\* A plan may take the place of another one if it carries committed rows.
PlanTypes == \A w \in Worker : DOMAIN plan[w] \subseteq Job /\ \A j \in DOMAIN plan[w] : plan[w][j] \in Committed

Stages == {"idle", "ready", "read", "committed", "versioned", "applied", "drafting", "valid", "published"}
LocalTypes ==
    /\ PlanTypes /\ pc \in [Worker -> Stages]
    /\ ver \in [Worker -> Namespace] /\ from \in [Worker -> Namespace] /\ at \in [Worker -> 0..MaxTime]

LEMMA CarryTypes ==
    ASSUME TypeOK, Lease, NEW w \in Worker, NEW p, Carry(w, p), DOMAIN p \subseteq Job, \A j \in DOMAIN p : p[j] \in Committed
    PROVE  PlanTypes'
BY DEF TypeOK, Lease, PlanTypes, Carry

LEMMA TypeInit == Init => TypeOK
<1> SUFFICES ASSUME Init PROVE TypeOK
  OBVIOUS
<1>1. 0 \in 0..MaxTime /\ 0 \in Revision /\ 0 \in Time
  BY CatalogAssumption DEF Revision, Time
<1>2. Bootstrap \in Namespace /\ NoRow \in {NoRow}
  BY DEF Namespace
<1>3. \A w \in Worker : DOMAIN plan[w] = {}
  BY DEF Init, NoPlan
<1>4. member \in [Namespace -> [Job -> [rev : Revision, keys : SUBSET Family, until : Time \cup {Forever}]]]
  BY NothingTypes DEF Init
<1>5. QED
  BY <1>1, <1>2, <1>3, <1>4 DEF Init, TypeOK

\* What a worker does to its own plan and stage.
LEMMA ResumeFacts ==
    ASSUME TypeOK, Lease, NEW w \in Worker, NEW phase, Resume(w, phase)
    PROVE  /\ pc' = [pc EXCEPT ![w] = phase] /\ plan' = [plan EXCEPT ![w] = NoPlan] /\ DOMAIN plan'[w] = {}
           /\ phase \in Stages => LocalTypes'
<1>1. pc' = [pc EXCEPT ![w] = phase] /\ plan' = [plan EXCEPT ![w] = NoPlan]
  BY DEF Resume, Go, Carry
<1>2. Bootstrap \in Namespace /\ 0 \in 0..MaxTime
  BY CatalogAssumption DEF Namespace
<1>3. DOMAIN NoPlan = {}
  BY NothingTypes
<1>4. PlanTypes'
  <2>1. Carry(w, NoPlan)
    BY DEF Resume
  <2>2. QED
    BY <1>3, <2>1, CarryTypes
<1>5. ver' \in [Worker -> Namespace] /\ from' \in [Worker -> Namespace] /\ at' \in [Worker -> 0..MaxTime]
  BY <1>2 DEF Resume, TypeOK
<1>6. phase \in Stages => pc' \in [Worker -> Stages]
  BY <1>1 DEF TypeOK, Stages
<1>7. plan'[w] = NoPlan
  BY <1>1 DEF Lease
<1>8. QED
  BY <1>1, <1>3, <1>4, <1>5, <1>6, <1>7 DEF LocalTypes

LEMMA GoFacts ==
    ASSUME TypeOK, NEW w \in Worker, NEW phase \in Stages, Go(w, phase), UNCHANGED <<plan, ver, from, at>>
    PROVE  LocalTypes'
<1>1. pc' \in [Worker -> Stages]
  BY DEF Go, TypeOK, Stages
<1>2. QED
  BY <1>1 DEF TypeOK, LocalTypes, PlanTypes

LEMMA CommitTypes ==
    ASSUME TypeOK, Lease, NEW w \in Worker, NEW new, NEW other, Commit(w, new, other), DOMAIN new \subseteq Job, other \subseteq DOMAIN plan[w],
           \A j \in DOMAIN new : new[j].fam \in {{f} : f \in Family} /\ new[j].exp \in Time
    PROVE  TypeOK'
<1>1. seq' = seq + 1 /\ seq + 1 \in 1..MaxRevision /\ seq + 1 \in Revision
  BY CatalogAssumption DEF Commit, TypeOK, Revision
<1>2. row' \in [Job -> {NoRow} \cup [rev : 1..MaxRevision, fam : {{f} : f \in Family}, exp : Time, indexed : Revision]]
  <2>1. \A j \in Job : row[j].indexed \in Revision
    BY RowTypes
  <2>2. \A j \in DOMAIN new : [rev |-> seq + 1, fam |-> new[j].fam, exp |-> new[j].exp, indexed |-> row[j].indexed]
            \in [rev : 1..MaxRevision, fam : {{f} : f \in Family}, exp : Time, indexed : Revision]
    BY <1>1, <2>1
  <2>3. QED
    BY <2>2 DEF Commit, TypeOK
<1>3. PlanTypes'
  <2> DEFINE p == [j \in DOMAIN new \cup other |-> IF j \in DOMAIN new
                      THEN [rev |-> seq + 1, fam |-> new[j].fam, exp |-> new[j].exp] ELSE plan[w][j]]
  <2>1. \A j \in DOMAIN new : [rev |-> seq + 1, fam |-> new[j].fam, exp |-> new[j].exp] \in Committed
    BY <1>1 DEF Committed
  <2>2. DOMAIN p \subseteq Job /\ \A j \in DOMAIN p : p[j] \in Committed
    BY <2>1 DEF TypeOK
  <2>3. plan' = [plan EXCEPT ![w] = p]
    BY DEF Commit, Carry
  <2> HIDE DEF p
  <2>4. QED
    BY <2>2, <2>3 DEF PlanTypes, TypeOK, Lease
<1>4. QED
  BY <1>1, <1>2, <1>3 DEF Commit, TypeOK, PlanTypes, Go, projection, entries

LEMMA MarkTypes ==
    ASSUME TypeOK, NEW w \in Worker, MarkIndexed(w, DOMAIN plan[w]), \A j \in DOMAIN plan[w] : plan[w][j].rev <= row[j].rev
    PROVE  /\ row' \in [Job -> {NoRow} \cup [rev : 1..MaxRevision, fam : {{f} : f \in Family}, exp : Time, indexed : Revision]]
           /\ \A j \in Job : /\ row'[j].rev = row[j].rev /\ row'[j].fam = row[j].fam /\ row'[j].exp = row[j].exp
                             /\ row'[j].indexed = row[j].indexed
                                  \/ (row'[j].indexed = row[j].rev /\ j \in DOMAIN plan[w] /\ plan[w][j].rev = row[j].rev)
<1>1. ASSUME NEW j \in Job
      PROVE  /\ row'[j] \in {NoRow} \cup [rev : 1..MaxRevision, fam : {{f} : f \in Family}, exp : Time, indexed : Revision]
             /\ row'[j].rev = row[j].rev /\ row'[j].fam = row[j].fam /\ row'[j].exp = row[j].exp
             /\ row'[j].indexed = row[j].indexed
                  \/ (row'[j].indexed = row[j].rev /\ j \in DOMAIN plan[w] /\ plan[w][j].rev = row[j].rev)
  <2>1. CASE row'[j] = row[j]
    BY <2>1 DEF TypeOK
  <2>2. CASE row'[j] # row[j]
    <3>1. j \in DOMAIN plan[w] /\ plan[w][j].rev = row[j].rev /\ row'[j] = [row[j] EXCEPT !.indexed = row[j].rev]
      BY <2>2 DEF MarkIndexed
    <3>2. plan[w][j] \in Committed
      BY <3>1 DEF TypeOK
    <3>3. plan[w][j].rev > 0
      BY <3>2, CommittedFacts
    <3>4. Exists(j)
      BY <3>1, <3>3 DEF Exists
    <3>5. row[j] \in [rev : 1..MaxRevision, fam : {{f} : f \in Family}, exp : Time, indexed : Revision] /\ row[j].rev \in Revision
      BY <3>4, RowTypes
    <3>6. QED
      BY <3>1, <3>5
  <2>3. QED
    BY <2>1, <2>2
<1>2. row' = [j \in Job |-> row'[j]]
  BY DEF MarkIndexed
<1>3. QED
  BY <1>1, <1>2

LEMMA TypeStep == TypeOK /\ Lease /\ Rows /\ Plans /\ [Next]_vars => TypeOK'
<1> SUFFICES ASSUME TypeOK, Lease, Rows, Plans, [Next]_vars PROVE TypeOK'
  OBVIOUS
<1>0. \A w \in Worker : \A s \in Stages : Go(w, s) => pc' \in [Worker -> Stages]
  BY DEF Go, TypeOK, Stages
<1>1. CASE UNCHANGED vars
  BY <1>1 DEF vars, catalog, projection, entries, local, TypeOK
<1>2. ASSUME NEW w \in Worker, NEW o \in SharedOp \cup ExclusiveOp, Begin(w, o) PROVE TypeOK'
  BY <1>0, <1>2 DEF Begin, TypeOK, Stages, catalog, projection, entries
<1>3. ASSUME NEW w \in Worker, End(w) PROVE TypeOK'
  <2>1. op' \in [Worker -> {"none"} \cup SharedOp \cup ExclusiveOp]
    BY <1>3 DEF End, TypeOK
  <2>2. LocalTypes'
    BY <1>3, ResumeFacts DEF End, Stages
  <2>3. QED
    BY <1>3, <2>1, <2>2 DEF End, TypeOK, LocalTypes, PlanTypes, Stages, catalog, projection, entries
<1>4. ASSUME NEW w \in Worker, Save(w) PROVE TypeOK'
  <2>1. PICK batch \in SUBSET Job : \E fam \in [batch -> Family] :
          Commit(w, [j \in batch |-> [fam |-> {fam[j]}, exp |-> now + Lifetime]], {})
    BY <1>4 DEF Save
  <2>2. PICK fam \in [batch -> Family] : Commit(w, [j \in batch |-> [fam |-> {fam[j]}, exp |-> now + Lifetime]], {})
    BY <2>1
  <2>3. now + Lifetime \in Time
    BY TimeFacts DEF TypeOK
  <2>4. PICK new : new = [j \in batch |-> [fam |-> {fam[j]}, exp |-> now + Lifetime]]
    OBVIOUS
  <2>5. /\ DOMAIN new \subseteq Job /\ Commit(w, new, {})
        /\ \A j \in DOMAIN new : new[j].fam \in {{f} : f \in Family} /\ new[j].exp \in Time
    BY <2>2, <2>3, <2>4
  <2>6. QED
    BY <2>5, CommitTypes
<1>5. ASSUME NEW w \in Worker, Deactivate(w) PROVE TypeOK'
  <2>1. PICK batch \in SUBSET {j \in Job : Alive(j)} : Commit(w, [j \in batch |-> [fam |-> row[j].fam, exp |-> now]], {})
    BY <1>5 DEF Deactivate
  <2>2. PICK new : new = [j \in batch |-> [fam |-> row[j].fam, exp |-> now]]
    OBVIOUS
  <2>3. now \in Time
    BY TimeFacts DEF TypeOK
  <2>4. \A j \in batch : row[j].fam \in {{f} : f \in Family}
    BY RowTypes
  <2>5. /\ DOMAIN new \subseteq Job /\ Commit(w, new, {})
        /\ \A j \in DOMAIN new : new[j].fam \in {{f} : f \in Family} /\ new[j].exp \in Time
    BY <2>1, <2>2, <2>3, <2>4
  <2>6. QED
    BY <2>5, CommitTypes
<1>6. ASSUME NEW w \in Worker, ReadExpired(w) \/ ReadActive(w) PROVE TypeOK'
  <2>1. PICK batch \in SUBSET Job : (\A j \in batch : Exists(j)) /\ Carry(w, [j \in batch |-> Carried(j)])
    BY <1>6 DEF ReadExpired, ReadActive, Alive, AliveAt
  <2>2. PICK p : p = [j \in batch |-> Carried(j)]
    OBVIOUS
  <2>3. DOMAIN p \subseteq Job /\ \A j \in DOMAIN p : p[j] \in Committed
    BY <2>1, <2>2, RowTypes
  <2>4. PlanTypes'
    BY <2>1, <2>2, <2>3, CarryTypes
  <2>5. QED
    BY <1>0, <1>6, <2>4 DEF ReadExpired, ReadActive, TypeOK, PlanTypes, Stages, catalog, projection, entries
<1>7. ASSUME NEW w \in Worker, Reclassify(w) PROVE TypeOK'
  <2>1. PICK batch \in SUBSET DOMAIN plan[w] : \E fam \in [batch -> Family] :
          \/ Commit(w, [j \in batch |-> [fam |-> {fam[j]}, exp |-> row[j].exp]], DOMAIN plan[w])
          \/ Go(w, "committed") /\ UNCHANGED <<now, catalog, projection, op, plan, ver, from, at>>
    BY <1>7 DEF Reclassify
  <2>2. PICK fam \in [batch -> Family] :
          \/ Commit(w, [j \in batch |-> [fam |-> {fam[j]}, exp |-> row[j].exp]], DOMAIN plan[w])
          \/ Go(w, "committed") /\ UNCHANGED <<now, catalog, projection, op, plan, ver, from, at>>
    BY <2>1
  <2>3. CASE Go(w, "committed") /\ UNCHANGED <<now, catalog, projection, op, plan, ver, from, at>>
    BY <1>0, <2>3 DEF TypeOK, Stages, catalog, projection, entries
  <2>4. PICK new : new = [j \in batch |-> [fam |-> {fam[j]}, exp |-> row[j].exp]]
    OBVIOUS
  <2>5. \A j \in batch : j \in Job /\ row[j].exp \in Time
    <3>1. ASSUME NEW j \in batch PROVE j \in Job /\ row[j].exp \in Time
      <4>1. j \in Job /\ plan[w][j] \in Committed
        BY DEF TypeOK
      <4>2. plan[w][j].rev > 0 /\ plan[w][j].rev <= row[j].rev /\ plan[w][j].rev \in Nat /\ row[j].rev \in Nat
        BY <4>1, CommittedFacts, RowTypes DEF Plans
      <4>3. Exists(j)
        BY <4>2 DEF Exists
      <4>4. QED
        BY <4>1, <4>3, RowTypes
    <3>2. QED
      BY <3>1
  <2>6. CASE Commit(w, new, DOMAIN plan[w])
    <3>1. /\ DOMAIN new \subseteq Job
          /\ \A j \in DOMAIN new : new[j].fam \in {{f} : f \in Family} /\ new[j].exp \in Time
      BY <2>2, <2>4, <2>5
    <3>2. QED
      BY <2>6, <3>1, CommitTypes
  <2>7. QED
    BY <2>2, <2>3, <2>4, <2>6
<1>8. ASSUME NEW w \in Worker, ReadVersion(w) \/ Validate(w) PROVE TypeOK'
  <2>1. active \in Namespace
    BY DEF TypeOK
  <2>2. QED
    BY <1>0, <1>8, <2>1 DEF ReadVersion, Validate, TypeOK, Stages, catalog, projection, entries
<1>9. ASSUME NEW w \in Worker, Apply(w) \/ ApplyUnanswered(w) PROVE TypeOK'
  <2>1. ApplyScript(active, plan[w], FALSE) /\ UNCHANGED <<now, catalog, made, kept, op>>
    BY <1>9 DEF Apply, ApplyUnanswered, ApplyActive
  <2>2. PICK v \in Namespace : v = active
    BY DEF TypeOK
  <2>3. PICK p : p = plan[w]
    OBVIOUS
  <2>4. DOMAIN p \subseteq Job /\ \A j \in DOMAIN p : p[j] \in Committed
    BY <2>3 DEF TypeOK
  <2>5. ApplyScript(v, p, FALSE)
    BY <2>1, <2>2, <2>3
  <2>6. /\ member' \in [Namespace -> [Job -> [rev : Revision, keys : SUBSET Family, until : Time \cup {Forever}]]]
        /\ index' \in [Namespace -> [Job -> Time]] /\ fset' \in [Namespace -> [Family -> SUBSET Job]]
        /\ until' \in [Namespace -> [Family -> Time \cup {Forever}]]
        /\ idx' \in [Job -> SUBSET Family] /\ gen' \in BOOLEAN /\ active' = active
    BY <2>2, <2>4, <2>5, TypeScript
  <2>7. \/ Resume(w, "ready")
        \/ Go(w, "applied") /\ UNCHANGED <<plan, ver, from, at>>
        \/ Go(w, "committed") /\ UNCHANGED <<plan, ver, from, at>>
    BY <1>9 DEF Apply, ApplyUnanswered
  <2>8. LocalTypes'
    <3>1. CASE Resume(w, "ready")
      BY <3>1, ResumeFacts DEF Stages
    <3>2. CASE UNCHANGED <<plan, ver, from, at>> /\ (Go(w, "applied") \/ Go(w, "committed"))
      BY <3>2, GoFacts DEF Stages
    <3>3. QED
      BY <2>7, <3>1, <3>2
  <2>9. QED
    BY <2>1, <2>6, <2>8 DEF TypeOK, LocalTypes, PlanTypes, catalog, Stages
<1>10. ASSUME NEW w \in Worker, Mark(w) \/ MarkPublished(w) PROVE TypeOK'
  <2>1. MarkIndexed(w, DOMAIN plan[w]) /\ Resume(w, "ready") /\ UNCHANGED <<now, seq, projection, op>>
    BY <1>10 DEF Mark, MarkPublished
  <2>2. row' \in [Job -> {NoRow} \cup [rev : 1..MaxRevision, fam : {{f} : f \in Family}, exp : Time, indexed : Revision]]
    BY <2>1, MarkTypes DEF Plans
  <2>3. LocalTypes'
    BY <2>1, ResumeFacts DEF Stages
  <2>4. QED
    BY <2>1, <2>2, <2>3 DEF TypeOK, LocalTypes, PlanTypes, Stages, projection, entries
<1>11. ASSUME NEW w \in Worker, StartRebuild(w) PROVE TypeOK'
  <2>1. PICK v \in Version \ made : made' = made \cup {v} /\ ver' = [ver EXCEPT ![w] = v]
    BY <1>11 DEF StartRebuild
  <2>2. v \in Namespace /\ active \in Namespace /\ made' \subseteq Namespace /\ kept \subseteq made'
    BY <2>1 DEF TypeOK, Namespace
  <2>3. QED
    BY <1>0, <1>11, <2>1, <2>2 DEF StartRebuild, TypeOK, Stages, catalog, entries
<1>12. ASSUME NEW w \in Worker, Draft(w) PROVE TypeOK'
  <2>1. PICK j \in Job \ DOMAIN plan[w] : /\ AliveAt(j, at[w])
                                          /\ Carry(w, [k \in DOMAIN plan[w] \cup {j} |-> Carried(k)])
                                          /\ ApplyScript(ver[w], [k \in {j} |-> Carried(k)], TRUE)
    BY <1>12 DEF Draft
  <2>2. PICK v \in Namespace : v = ver[w]
    BY DEF TypeOK
  <2>3. PICK p : p = [k \in {j} |-> Carried(k)]
    OBVIOUS
  <2>4. PICK q : q = [k \in DOMAIN plan[w] \cup {j} |-> Carried(k)]
    OBVIOUS
  <2>5. \A k \in DOMAIN plan[w] \cup {j} : k \in Job /\ Carried(k) \in Committed
    <3>1. ASSUME NEW k \in DOMAIN plan[w] PROVE k \in Job /\ Carried(k) \in Committed
      <4>1. k \in Job /\ plan[w][k] \in Committed
        BY DEF TypeOK
      <4>2. plan[w][k].rev > 0 /\ plan[w][k].rev <= row[k].rev /\ plan[w][k].rev \in Nat /\ row[k].rev \in Nat
        BY <4>1, CommittedFacts, RowTypes DEF Plans
      <4>3. QED
        BY <4>1, <4>2, RowTypes DEF Exists
    <3>2. Carried(j) \in Committed
      BY <2>1, RowTypes DEF AliveAt
    <3>3. QED
      BY <3>1, <3>2
  <2>6. DOMAIN p \subseteq Job /\ (\A k \in DOMAIN p : p[k] \in Committed) /\ DOMAIN q \subseteq Job /\ (\A k \in DOMAIN q : q[k] \in Committed)
    BY <2>3, <2>4, <2>5
  <2>7. ApplyScript(v, p, TRUE) /\ Carry(w, q)
    BY <2>1, <2>2, <2>3, <2>4
  <2>8. PlanTypes'
    BY <2>6, <2>7, CarryTypes
  <2>9. /\ member' \in [Namespace -> [Job -> [rev : Revision, keys : SUBSET Family, until : Time \cup {Forever}]]]
        /\ index' \in [Namespace -> [Job -> Time]] /\ fset' \in [Namespace -> [Family -> SUBSET Job]]
        /\ until' \in [Namespace -> [Family -> Time \cup {Forever}]]
        /\ idx' \in [Job -> SUBSET Family] /\ gen' \in BOOLEAN /\ active' = active
    BY <2>6, <2>7, TypeScript
  <2>10. QED
    BY <1>12, <2>8, <2>9 DEF Draft, TypeOK, PlanTypes, catalog
<1>13. ASSUME NEW w \in Worker, StartRollback(w) PROVE TypeOK'
  <2>1. PICK v \in made : ver' = [ver EXCEPT ![w] = v]
    BY <1>13 DEF StartRollback
  <2>2. v \in Namespace /\ active \in Namespace
    BY DEF TypeOK
  <2>3. QED
    BY <1>0, <1>13, <2>1, <2>2 DEF StartRollback, TypeOK, Stages, catalog, projection, entries
<1>14. ASSUME NEW w \in Worker, Publish(w) PROVE TypeOK'
  <2>1. ver[w] \in made /\ active' \in kept' /\ kept' \subseteq made /\ gen' \in BOOLEAN
    BY <1>14 DEF Publish, Lease, TypeOK
  <2>2. LocalTypes'
    <3>1. CASE Resume(w, "ready")
      BY <3>1, ResumeFacts DEF Stages
    <3>2. CASE UNCHANGED <<plan, ver, from, at>> /\ Go(w, "published")
      BY <3>2, GoFacts DEF Stages
    <3>3. QED
      BY <1>14, <3>1, <3>2 DEF Publish, Published
  <2>3. QED
    BY <1>14, <2>1, <2>2 DEF Publish, TypeOK, LocalTypes, PlanTypes, Stages, catalog, entries
<1>15. CASE Tick
  <2>1. now' \in 0..MaxTime
    BY <1>15, CatalogAssumption DEF Tick, TypeOK
  <2>2. member' \in [Namespace -> [Job -> [rev : Revision, keys : SUBSET Family, until : Time \cup {Forever}]]]
    BY <1>15, NothingTypes DEF Tick, TypeOK
  <2>3. /\ index' \in [Namespace -> [Job -> Time]] /\ fset' \in [Namespace -> [Family -> SUBSET Job]]
        /\ until' \in [Namespace -> [Family -> Time \cup {Forever}]]
    BY <1>15, TimeFacts DEF Tick, TypeOK
  <2>4. QED
    BY <1>15, <2>1, <2>2, <2>3 DEF Tick, TypeOK, catalog, local
<1>16. QED
  BY <1>1, <1>2, <1>3, <1>4, <1>5, <1>6, <1>7, <1>8, <1>9, <1>10, <1>11, <1>12, <1>13, <1>14, <1>15 DEF Next, Step
-----------------------------------------------------------------------------
\* Leases, rows and plans.

\* Under the exclusive lease nobody else is at work.
LEMMA OthersAreIdle ==
    ASSUME Lease, NEW w \in Worker, op[w] \in ExclusiveOp, NEW x \in Worker \ {w}
    PROVE  pc[x] = "idle" /\ op[x] = "none" /\ DOMAIN plan[x] = {}
BY DEF Lease

\* And while someone is at work under another lease, nobody holds that one.
LEMMA NoneIsExclusive ==
    ASSUME Lease, NEW w \in Worker, pc[w] # "idle", NEW x \in Worker \ {w}
    PROVE  op[x] \notin ExclusiveOp /\ pc[x] \notin {"valid", "drafting", "read", "published"}
BY DEF Lease, ExclusiveOp

\* A worker goes on under its lease.
LEMMA LeaseOnward ==
    ASSUME TypeOK, Lease, NEW w \in Worker, NEW phase \in Stages \ {"idle", "ready"}, Go(w, phase), UNCHANGED op, pc[w] # "idle",
           made \subseteq made', kept' = kept, plan' = [x \in Worker |-> plan'[x]],
           \A x \in Worker \ {w} : plan'[x] = plan[x] /\ ver'[x] = ver[x],
           phase = "read" => op[w] = "reclassify",
           phase \in {"committed", "versioned", "applied"} => op[w] \in SharedOp \cup {"reclassify"},
           phase \in {"drafting", "published"} => op[w] = "rebuild",
           phase = "valid" => op[w] \in {"rebuild", "rollback"},
           phase \in {"drafting", "valid"} => ver'[w] \in made',
           phase = "drafting" => ver'[w] \notin kept
    PROVE  Lease'
<1>1. pc' = [pc EXCEPT ![w] = phase] /\ pc'[w] = phase
  BY DEF Go, TypeOK
<1>2. ASSUME NEW x \in Worker
      PROVE  /\ op'[x] = "none" <=> pc'[x] = "idle"
             /\ op'[x] \in ExclusiveOp => \A y \in Worker \ {x} : op'[y] = "none"
             /\ pc'[x] \in {"idle", "ready"} => DOMAIN plan'[x] = {}
             /\ pc'[x] = "read" => op'[x] = "reclassify"
             /\ pc'[x] \in {"committed", "versioned", "applied"} => op'[x] \in SharedOp \cup {"reclassify"}
             /\ pc'[x] \in {"drafting", "published"} => op'[x] = "rebuild"
             /\ pc'[x] = "valid" => op'[x] \in {"rebuild", "rollback"}
             /\ pc'[x] \in {"drafting", "valid"} => ver'[x] \in made'
             /\ pc'[x] = "drafting" => ver'[x] \notin kept'
  <2>1. CASE x = w
    BY <1>1, <2>1 DEF Lease
  <2>2. CASE x # w
    <3>1. pc'[x] = pc[x]
      BY <1>1, <2>2 DEF TypeOK
    <3>2. QED
      BY <2>2, <3>1 DEF Lease
  <2>3. QED
    BY <2>1, <2>2
<1>3. QED
  BY <1>2 DEF Lease

\* A worker has done, or is ready for more.
LEMMA LeaseResumes ==
    ASSUME TypeOK, Lease, NEW w \in Worker, NEW phase \in {"idle", "ready"}, Resume(w, phase), pc[w] # "idle",
           op' = [op EXCEPT ![w] = IF phase = "idle" THEN "none" ELSE @], made' = made,
           kept' = kept \/ (op[w] \in ExclusiveOp)
    PROVE  Lease'
<1>1. pc' = [pc EXCEPT ![w] = phase] /\ plan' = [plan EXCEPT ![w] = NoPlan] /\ ver' = [ver EXCEPT ![w] = Bootstrap]
  BY DEF Resume, Go, Carry
<1>2. plan' = [x \in Worker |-> plan'[x]] /\ DOMAIN plan'[w] = {}
  BY <1>1, NothingTypes DEF Lease
<1>3. pc'[w] = phase /\ op'[w] = IF phase = "idle" THEN "none" ELSE op[w]
  BY <1>1 DEF TypeOK
<1>4. ASSUME NEW x \in Worker
      PROVE  /\ op'[x] = "none" <=> pc'[x] = "idle"
             /\ op'[x] \in ExclusiveOp => \A y \in Worker \ {x} : op'[y] = "none"
             /\ pc'[x] \in {"idle", "ready"} => DOMAIN plan'[x] = {}
             /\ pc'[x] = "read" => op'[x] = "reclassify"
             /\ pc'[x] \in {"committed", "versioned", "applied"} => op'[x] \in SharedOp \cup {"reclassify"}
             /\ pc'[x] \in {"drafting", "published"} => op'[x] = "rebuild"
             /\ pc'[x] = "valid" => op'[x] \in {"rebuild", "rollback"}
             /\ pc'[x] \in {"drafting", "valid"} => ver'[x] \in made'
             /\ pc'[x] = "drafting" => ver'[x] \notin kept'
  <2>1. \A y \in Worker \ {w} : op'[y] = op[y] /\ pc'[y] = pc[y] /\ plan'[y] = plan[y] /\ ver'[y] = ver[y]
    BY <1>1 DEF TypeOK, Lease
  <2>2. CASE x = w
    BY <1>2, <1>3, <2>1, <2>2 DEF Lease, ExclusiveOp
  <2>3. CASE x # w
    <3>1. kept' = kept \/ pc[x] = "idle"
      BY <2>3, OthersAreIdle
    <3>2. op'[w] = "none" \/ op'[w] = op[w]
      BY <1>3
    <3>3. QED
      BY <2>1, <2>3, <3>1, <3>2 DEF Lease
  <2>4. QED
    BY <2>2, <2>3
<1>5. QED
  BY <1>2, <1>4 DEF Lease

LEMMA LeaseInit == Init => Lease
<1> SUFFICES ASSUME Init PROVE Lease
  OBVIOUS
<1>1. plan = [w \in Worker |-> NoPlan] /\ op = [w \in Worker |-> "none"] /\ pc = [w \in Worker |-> "idle"]
  BY DEF Init
<1>2. QED
  BY <1>1, NothingTypes DEF Lease, ExclusiveOp

LEMMA LeaseStep == TypeOK /\ Lease /\ [Next]_vars => Lease'
<1> SUFFICES ASSUME TypeOK, Lease, [Next]_vars PROVE Lease'
  OBVIOUS
<1>1. CASE UNCHANGED vars \/ Tick
  <2>1. UNCHANGED <<made, kept, op, pc, plan, ver>>
    BY <1>1 DEF vars, Tick, local, projection
  <2>2. QED
    BY <2>1 DEF Lease
<1>2. ASSUME NEW w \in Worker, NEW o \in SharedOp \cup ExclusiveOp, Begin(w, o) PROVE Lease'
  <2>1. /\ op' = [op EXCEPT ![w] = o] /\ pc' = [pc EXCEPT ![w] = "ready"] /\ UNCHANGED <<plan, ver, made, kept>>
        /\ pc[w] = "idle" /\ o # "none"
        /\ \A x \in Worker : op[x] \notin ExclusiveOp
        /\ o \in ExclusiveOp => \A x \in Worker : op[x] = "none"
    BY <1>2 DEF Begin, Go, projection, SharedOp, ExclusiveOp
  <2>2. op'[w] = o /\ pc'[w] = "ready" /\ \A x \in Worker \ {w} : op'[x] = op[x] /\ pc'[x] = pc[x]
    BY <2>1 DEF TypeOK
  <2>3. \A x \in Worker : op'[x] \in ExclusiveOp => \A y \in Worker \ {x} : op'[y] = "none"
    BY <2>1, <2>2
  <2>4. QED
    BY <2>1, <2>2, <2>3 DEF Lease
<1>3. ASSUME NEW w \in Worker, End(w) PROVE Lease'
  <2>1. op' = [op EXCEPT ![w] = "none"] /\ Resume(w, "idle") /\ pc[w] # "idle" /\ UNCHANGED <<made, kept>>
    BY <1>3 DEF End, projection
  <2>2. QED
    BY <2>1, LeaseResumes
<1>4. ASSUME NEW w \in Worker, NEW new, NEW other, Commit(w, new, other), pc[w] \in {"ready", "read"}, op[w] \in SharedOp \cup {"reclassify"} PROVE Lease'
  <2>1. Go(w, "committed") /\ UNCHANGED <<made, kept, op, ver>>
    BY <1>4 DEF Commit, projection
  <2>2. plan' = [x \in Worker |-> plan'[x]] /\ \A x \in Worker \ {w} : plan'[x] = plan[x]
    BY <1>4 DEF Commit, Carry, Lease
  <2>3. QED
    BY <1>4, <2>1, <2>2, LeaseOnward DEF Stages
<1>5. ASSUME NEW w \in Worker, Save(w) \/ Deactivate(w) \/ Reclassify(w) PROVE Lease'
  <2>1. \/ \E new, other : Commit(w, new, other)
        \/ Go(w, "committed") /\ UNCHANGED <<now, catalog, projection, op, plan, ver, from, at>>
    BY <1>5 DEF Save, Deactivate, Reclassify
  <2>2. pc[w] \in {"ready", "read"} /\ op[w] \in SharedOp \cup {"reclassify"}
    BY <1>5 DEF Save, Deactivate, Reclassify, Lease, SharedOp
  <2>3. CASE Go(w, "committed") /\ UNCHANGED <<now, catalog, projection, op, plan, ver, from, at>>
    <3>1. UNCHANGED <<made, kept, op, plan, ver>> /\ plan' = [x \in Worker |-> plan'[x]]
      BY <2>3 DEF projection, Lease
    <3>2. QED
      BY <2>2, <2>3, <3>1, LeaseOnward DEF Stages
  <2>4. QED
    BY <1>4, <2>1, <2>2, <2>3
<1>6. ASSUME NEW w \in Worker, ReadExpired(w) \/ ReadActive(w) PROVE Lease'
  <2>1. PICK p : Carry(w, p)
    BY <1>6 DEF ReadExpired, ReadActive
  <2>2. plan' = [x \in Worker |-> plan'[x]] /\ \A x \in Worker \ {w} : plan'[x] = plan[x]
    BY <2>1 DEF Carry, Lease
  <2>3. UNCHANGED <<made, kept, op, ver>> /\ pc[w] = "ready"
    BY <1>6 DEF ReadExpired, ReadActive, projection
  <2>4. (Go(w, "committed") /\ op[w] \in SharedOp) \/ (Go(w, "read") /\ op[w] = "reclassify")
    BY <1>6 DEF ReadExpired, ReadActive, SharedOp
  <2>5. QED
    BY <2>2, <2>3, <2>4, LeaseOnward DEF Stages
<1>7. ASSUME NEW w \in Worker, ReadVersion(w) PROVE Lease'
  <2>1. UNCHANGED <<made, kept, op, plan>> /\ pc[w] = "committed" /\ Go(w, "versioned")
    BY <1>7 DEF ReadVersion, projection
  <2>2. plan' = [x \in Worker |-> plan'[x]] /\ \A x \in Worker \ {w} : ver'[x] = ver[x]
    BY <1>7, <2>1 DEF ReadVersion, TypeOK, Lease
  <2>3. op[w] \in SharedOp \cup {"reclassify"}
    BY <2>1 DEF Lease
  <2>4. QED
    BY <2>1, <2>2, <2>3, LeaseOnward DEF Stages
<1>8. ASSUME NEW w \in Worker, Apply(w) \/ ApplyUnanswered(w) PROVE Lease'
  <2>1. UNCHANGED <<made, kept, op>> /\ pc[w] = "versioned" /\ op[w] \in SharedOp \cup {"reclassify"}
    BY <1>8 DEF Apply, ApplyUnanswered, ApplyActive, Lease
  <2>2. CASE Resume(w, "ready")
    <3>1. op' = [op EXCEPT ![w] = @]
      BY <2>1 DEF TypeOK
    <3>2. QED
      BY <2>1, <2>2, <3>1, LeaseResumes
  <2>3. CASE (Go(w, "applied") \/ Go(w, "committed")) /\ UNCHANGED <<plan, ver>>
    <3>1. plan' = [x \in Worker |-> plan'[x]]
      BY <2>3 DEF Lease
    <3>2. QED
      BY <2>1, <2>3, <3>1, LeaseOnward DEF Stages
  <2>4. QED
    BY <1>8, <2>2, <2>3 DEF Apply, ApplyUnanswered
<1>9. ASSUME NEW w \in Worker, Mark(w) \/ MarkPublished(w) PROVE Lease'
  <2>1. UNCHANGED <<made, kept, op>> /\ pc[w] # "idle" /\ Resume(w, "ready")
    BY <1>9 DEF Mark, MarkPublished, projection
  <2>2. op' = [op EXCEPT ![w] = @]
    BY <2>1 DEF TypeOK
  <2>3. QED
    BY <2>1, <2>2, LeaseResumes
<1>10. ASSUME NEW w \in Worker, StartRebuild(w) PROVE Lease'
  <2>1. PICK v \in Version \ made : made' = made \cup {v} /\ ver' = [ver EXCEPT ![w] = v]
    BY <1>10 DEF StartRebuild
  <2>2. UNCHANGED <<kept, op, plan>> /\ pc[w] = "ready" /\ op[w] = "rebuild" /\ Go(w, "drafting")
    BY <1>10 DEF StartRebuild
  <2>3. ver'[w] \in made' /\ ver'[w] \notin kept /\ \A x \in Worker \ {w} : ver'[x] = ver[x]
    BY <2>1 DEF TypeOK
  <2>4. plan' = [x \in Worker |-> plan'[x]]
    BY <2>2 DEF Lease
  <2>5. QED
    BY <2>1, <2>2, <2>3, <2>4, LeaseOnward DEF Stages
<1>11. ASSUME NEW w \in Worker, Draft(w) PROVE Lease'
  <2>1. PICK p : Carry(w, p)
    BY <1>11 DEF Draft
  <2>2. plan' = [x \in Worker |-> plan'[x]] /\ \A x \in Worker \ {w} : plan'[x] = plan[x]
    BY <2>1 DEF Carry, Lease
  <2>3. UNCHANGED <<made, kept, op, pc, ver>> /\ pc[w] = "drafting"
    BY <1>11 DEF Draft
  <2>4. QED
    BY <2>2, <2>3 DEF Lease
<1>12. ASSUME NEW w \in Worker, Validate(w) PROVE Lease'
  <2>1. UNCHANGED <<made, kept, op, plan, ver>> /\ pc[w] = "drafting" /\ Go(w, "valid")
    BY <1>12 DEF Validate, projection
  <2>2. plan' = [x \in Worker |-> plan'[x]] /\ ver[w] \in made /\ op[w] = "rebuild"
    BY <2>1 DEF Lease
  <2>3. QED
    BY <2>1, <2>2, LeaseOnward DEF Stages
<1>13. ASSUME NEW w \in Worker, StartRollback(w) PROVE Lease'
  <2>1. PICK v \in made : ver' = [ver EXCEPT ![w] = v]
    BY <1>13 DEF StartRollback
  <2>2. UNCHANGED <<made, kept, op, plan>> /\ pc[w] = "ready" /\ op[w] = "rollback" /\ Go(w, "valid")
    BY <1>13 DEF StartRollback, projection
  <2>3. ver'[w] \in made' /\ \A x \in Worker \ {w} : ver'[x] = ver[x]
    BY <2>1, <2>2 DEF TypeOK
  <2>4. plan' = [x \in Worker |-> plan'[x]]
    BY <2>2 DEF Lease
  <2>5. QED
    BY <2>1, <2>2, <2>3, <2>4, LeaseOnward DEF Stages
<1>14. ASSUME NEW w \in Worker, Publish(w) PROVE Lease'
  <2>1. pc[w] = "valid" /\ UNCHANGED <<made, op>> /\ op[w] \in {"rebuild", "rollback"}
    BY <1>14 DEF Publish, Lease
  <2>2. CASE op[w] = "rebuild"
    <3>1. Go(w, "published") /\ UNCHANGED <<plan, ver>>
      BY <1>14, <2>2 DEF Publish, Published
    <3>2. pc'[w] = "published" /\ \A x \in Worker \ {w} : pc'[x] = pc[x] /\ pc[x] = "idle"
      BY <2>2, <3>1, OthersAreIdle DEF Go, TypeOK, ExclusiveOp
    <3>3. QED
      BY <2>1, <2>2, <3>1, <3>2 DEF Lease
  <2>3. CASE op[w] # "rebuild"
    <3>1. Resume(w, "ready") /\ op' = [op EXCEPT ![w] = @] /\ op[w] \in ExclusiveOp
      BY <1>14, <2>1, <2>3 DEF Publish, Published, TypeOK, ExclusiveOp
    <3>2. QED
      BY <2>1, <3>1, LeaseResumes
  <2>4. QED
    BY <2>2, <2>3
<1>15. QED
  BY <1>1, <1>2, <1>3, <1>5, <1>6, <1>7, <1>8, <1>9, <1>10, <1>11, <1>12, <1>13, <1>14 DEF Next, Step

\* No row gets another revision; one may be confirmed, by who has brought it to the index.
StillRows ==
    /\ seq' = seq
    /\ \A j \in Job : /\ row'[j].rev = row[j].rev /\ row'[j].fam = row[j].fam /\ row'[j].exp = row[j].exp
                      /\ \/ row'[j].indexed = row[j].indexed
                         \/ row'[j].indexed = row[j].rev /\ \E w \in Worker : Landed(w, j)

\* What is carried was carried before, or is what the row says.
Follows(w, j) ==
    \/ j \in DOMAIN plan[w] /\ plan'[w][j] = plan[w][j] /\ op'[w] = op[w]
    \/ plan'[w][j] = Carried(j)
PlansFollow == \A w \in Worker : \A j \in DOMAIN plan'[w] : j \in Job /\ Follows(w, j)

Commits(w, new, other) ==
    /\ Commit(w, new, other) /\ DOMAIN new \subseteq Job /\ other \subseteq DOMAIN plan[w] /\ pc[w] # "idle"
    /\ DOMAIN new \cup other = DOMAIN new \/ op[w] \in ExclusiveOp

\* A worker's own plan.
LEMMA OwnPlan ==
    ASSUME TypeOK, Lease, NEW w \in Worker, NEW p, plan' = [plan EXCEPT ![w] = p],
           \A j \in DOMAIN p : j \in Job /\ p[j] = Carried(j), \A x \in Worker \ {w} : op'[x] = op[x]
    PROVE  PlansFollow
BY DEF TypeOK, Lease, PlansFollow, Follows

LEMMA SamePlans ==
    ASSUME TypeOK, UNCHANGED <<plan, op>>
    PROVE  PlansFollow
BY DEF TypeOK, PlansFollow, Follows

LEMMA SameRows == UNCHANGED catalog => StillRows
BY DEF catalog, StillRows

LEMMA NoPlanFollows ==
    ASSUME TypeOK, Lease, NEW w \in Worker, NEW phase, Resume(w, phase), \A x \in Worker \ {w} : op'[x] = op[x]
    PROVE  PlansFollow
<1>1. plan' = [plan EXCEPT ![w] = NoPlan] /\ DOMAIN NoPlan = {}
  BY NothingTypes DEF Resume, Carry
<1>2. QED
  BY <1>1, OwnPlan

\* A step commits, or leaves the rows and what is carried of them in accord.
LEMMA Effects ==
    ASSUME TypeOK, Lease, Plans, [Next]_vars
    PROVE  \/ StillRows /\ PlansFollow
           \/ \E w \in Worker : \E new, other : Commits(w, new, other)
<1>1. CASE UNCHANGED vars \/ Tick
  <2>1. UNCHANGED <<catalog, plan, op>>
    BY <1>1 DEF vars, Tick, local
  <2>2. QED
    BY <2>1, SamePlans, SameRows
<1>2. ASSUME NEW w \in Worker, NEW o \in SharedOp \cup ExclusiveOp, Begin(w, o) PROVE StillRows /\ PlansFollow
  <2>1. UNCHANGED <<catalog, plan>> /\ pc[w] = "idle" /\ \A x \in Worker \ {w} : op'[x] = op[x]
    BY <1>2 DEF Begin, TypeOK
  <2>2. DOMAIN plan[w] = {}
    BY <2>1 DEF Lease
  <2>3. PlansFollow
    BY <2>1, <2>2 DEF PlansFollow, Follows, TypeOK
  <2>4. QED
    BY <2>1, <2>3, SameRows
<1>3. ASSUME NEW w \in Worker, End(w) PROVE StillRows /\ PlansFollow
  <2>1. UNCHANGED catalog /\ Resume(w, "idle") /\ \A x \in Worker \ {w} : op'[x] = op[x]
    BY <1>3 DEF End, TypeOK
  <2>2. QED
    BY <2>1, NoPlanFollows, SameRows
<1>4. ASSUME NEW w \in Worker, Save(w) PROVE \E new, other : Commits(w, new, other)
  <2>1. PICK batch \in SUBSET Job : \E fam \in [batch -> Family] :
          Commit(w, [j \in batch |-> [fam |-> {fam[j]}, exp |-> now + Lifetime]], {})
    BY <1>4 DEF Save
  <2>2. PICK fam \in [batch -> Family] : Commit(w, [j \in batch |-> [fam |-> {fam[j]}, exp |-> now + Lifetime]], {})
    BY <2>1
  <2>3. PICK new : new = [j \in batch |-> [fam |-> {fam[j]}, exp |-> now + Lifetime]]
    OBVIOUS
  <2>4. Commit(w, new, {}) /\ DOMAIN new \subseteq Job
    BY <2>2, <2>3
  <2>5. Commits(w, new, {})
    BY <1>4, <2>4 DEF Commits, Save
  <2>6. QED
    BY <2>5
<1>5. ASSUME NEW w \in Worker, Deactivate(w) PROVE \E new, other : Commits(w, new, other)
  <2>1. PICK batch \in SUBSET {j \in Job : Alive(j)} : Commit(w, [j \in batch |-> [fam |-> row[j].fam, exp |-> now]], {})
    BY <1>5 DEF Deactivate
  <2>2. PICK new : new = [j \in batch |-> [fam |-> row[j].fam, exp |-> now]]
    OBVIOUS
  <2>3. Commit(w, new, {}) /\ DOMAIN new \subseteq Job
    BY <2>1, <2>2
  <2>4. Commits(w, new, {})
    BY <1>5, <2>3 DEF Commits, Deactivate
  <2>5. QED
    BY <2>4
<1>6. ASSUME NEW w \in Worker, ReadExpired(w) \/ ReadActive(w) PROVE StillRows /\ PlansFollow
  <2>1. PICK batch \in SUBSET Job : Carry(w, [j \in batch |-> Carried(j)])
    BY <1>6 DEF ReadExpired, ReadActive
  <2>2. PICK p : p = [j \in batch |-> Carried(j)]
    OBVIOUS
  <2>3. UNCHANGED <<catalog, op>>
    BY <1>6 DEF ReadExpired, ReadActive
  <2>4. PlansFollow
    BY <2>1, <2>2, <2>3, OwnPlan DEF Carry
  <2>5. QED
    BY <2>3, <2>4, SameRows
<1>7. ASSUME NEW w \in Worker, Reclassify(w) PROVE (StillRows /\ PlansFollow) \/ \E new, other : Commits(w, new, other)
  <2>1. PICK batch \in SUBSET DOMAIN plan[w] : \E fam \in [batch -> Family] :
          \/ Commit(w, [j \in batch |-> [fam |-> {fam[j]}, exp |-> row[j].exp]], DOMAIN plan[w])
          \/ Go(w, "committed") /\ UNCHANGED <<now, catalog, projection, op, plan, ver, from, at>>
    BY <1>7 DEF Reclassify
  <2>2. PICK fam \in [batch -> Family] :
          \/ Commit(w, [j \in batch |-> [fam |-> {fam[j]}, exp |-> row[j].exp]], DOMAIN plan[w])
          \/ Go(w, "committed") /\ UNCHANGED <<now, catalog, projection, op, plan, ver, from, at>>
    BY <2>1
  <2>3. CASE UNCHANGED <<catalog, op, plan>>
    BY <2>3, SamePlans, SameRows
  <2>4. PICK new : new = [j \in batch |-> [fam |-> {fam[j]}, exp |-> row[j].exp]]
    OBVIOUS
  <2>5. CASE Commit(w, new, DOMAIN plan[w])
    <3>1. op[w] \in ExclusiveOp /\ pc[w] # "idle" /\ DOMAIN new \subseteq Job
      BY <1>7, <2>4 DEF Reclassify, Lease, ExclusiveOp, TypeOK
    <3>2. QED
      BY <2>5, <3>1 DEF Commits
  <2>6. QED
    BY <2>2, <2>3, <2>4, <2>5
<1>8. ASSUME NEW w \in Worker, ReadVersion(w) \/ Validate(w) \/ StartRebuild(w) \/ StartRollback(w) PROVE StillRows /\ PlansFollow
  <2>1. UNCHANGED <<catalog, plan, op>>
    BY <1>8 DEF ReadVersion, Validate, StartRebuild, StartRollback
  <2>2. QED
    BY <2>1, SamePlans, SameRows
<1>9. ASSUME NEW w \in Worker, Apply(w) \/ ApplyUnanswered(w) \/ Publish(w) PROVE StillRows /\ PlansFollow
  <2>1. UNCHANGED <<catalog, op>> /\ (Resume(w, "ready") \/ UNCHANGED plan)
    BY <1>9 DEF Apply, ApplyUnanswered, Publish, Published
  <2>2. QED
    BY <2>1, SamePlans, NoPlanFollows, SameRows
<1>10. ASSUME NEW w \in Worker, Mark(w) \/ MarkPublished(w) PROVE StillRows /\ PlansFollow
  <2>1. /\ MarkIndexed(w, DOMAIN plan[w]) /\ Resume(w, "ready") /\ UNCHANGED <<now, seq, projection, op>>
        /\ pc[w] \in {"applied", "published"}
    BY <1>10 DEF Mark, MarkPublished
  <2>2. \A j \in Job : /\ row'[j].rev = row[j].rev /\ row'[j].fam = row[j].fam /\ row'[j].exp = row[j].exp
                       /\ row'[j].indexed = row[j].indexed
                            \/ (row'[j].indexed = row[j].rev /\ j \in DOMAIN plan[w] /\ plan[w][j].rev = row[j].rev)
    BY <2>1, MarkTypes DEF Plans
  <2>3. StillRows
    BY <2>1, <2>2 DEF StillRows, Landed, Carries
  <2>4. QED
    BY <2>1, <2>3, NoPlanFollows
<1>11. ASSUME NEW w \in Worker, Draft(w) PROVE StillRows /\ PlansFollow
  <2>1. PICK j \in Job \ DOMAIN plan[w] : Carry(w, [k \in DOMAIN plan[w] \cup {j} |-> Carried(k)])
    BY <1>11 DEF Draft
  <2>2. PICK p : p = [k \in DOMAIN plan[w] \cup {j} |-> Carried(k)]
    OBVIOUS
  <2>3. UNCHANGED <<catalog, op>>
    BY <1>11 DEF Draft
  <2>4. \A k \in DOMAIN p : k \in Job /\ p[k] = Carried(k)
    BY <2>2 DEF TypeOK
  <2>5. PlansFollow
    BY <2>1, <2>2, <2>3, <2>4, OwnPlan DEF Carry
  <2>6. QED
    BY <2>3, <2>5, SameRows
<1>12. QED
  BY <1>1, <1>2, <1>3, <1>4, <1>5, <1>6, <1>7, <1>8, <1>9, <1>10, <1>11 DEF Next, Step

LEMMA StillRowsKeep ==
    ASSUME TypeOK, Lease, Rows, Plans, StillRows, PlansFollow
    PROVE  Rows' /\ Plans'
<1>1. Rows'
  BY RowTypes DEF Rows, StillRows
<1>2. ASSUME NEW w \in Worker, NEW j \in DOMAIN plan'[w]
      PROVE  /\ plan'[w][j].rev <= row'[j].rev
             /\ plan'[w][j].rev = row'[j].rev => plan'[w][j].fam = row'[j].fam /\ plan'[w][j].exp = row'[j].exp
             /\ op'[w] \in ExclusiveOp => plan'[w][j].rev = row'[j].rev
  <2>1. j \in Job /\ Follows(w, j)
    BY DEF PlansFollow
  <2>2. row'[j].rev = row[j].rev /\ row'[j].fam = row[j].fam /\ row'[j].exp = row[j].exp /\ row[j].rev \in Nat
    BY <2>1, RowTypes DEF StillRows
  <2>3. CASE j \in DOMAIN plan[w] /\ plan'[w][j] = plan[w][j] /\ op'[w] = op[w]
    BY <2>2, <2>3 DEF Plans
  <2>4. CASE plan'[w][j] = Carried(j)
    BY <2>2, <2>4 DEF Carried
  <2>5. QED
    BY <2>1, <2>3, <2>4 DEF Follows
<1>3. QED
  BY <1>1, <1>2 DEF Plans
-----------------------------------------------------------------------------
\* What a commit leaves.

Others == Entries /\ DraftSets /\ VouchedInv /\ LateInv /\ ValidInv

\* A committed row is ahead of every entry and of every other plan, and not confirmed yet.
LEMMA CommitKeeps ==
    ASSUME TypeOK, Lease, Rows, Plans, Others, NEW w \in Worker, NEW new, NEW other, Commits(w, new, other)
    PROVE  Rows' /\ Plans' /\ Others'
<1> DEFINE batch == DOMAIN new
<1>1. /\ seq' = seq + 1 /\ seq \in Nat /\ UNCHANGED <<now, active, kept, member, index, fset, until, op, ver>> /\ pc[w] # "idle"
      /\ pc' = [pc EXCEPT ![w] = "committed"]
  BY CatalogAssumption DEF Commits, Commit, TypeOK, Revision, projection, entries, Go
<1>2. /\ \A j \in batch : /\ row'[j].rev = seq + 1 /\ row'[j].fam = new[j].fam /\ row'[j].exp = new[j].exp
                         /\ row'[j].indexed = row[j].indexed /\ j \in Job
      /\ \A j \in Job \ batch : row'[j] = row[j]
  <2>1. \A j \in Job : row'[j] = IF j \in batch
                THEN [rev |-> seq + 1, fam |-> new[j].fam, exp |-> new[j].exp, indexed |-> row[j].indexed] ELSE row[j]
    BY DEF Commits, Commit
  <2>2. batch \subseteq Job
    BY DEF Commits
  <2> HIDE DEF batch
  <2>3. ASSUME NEW j \in batch
        PROVE  row'[j].rev = seq + 1 /\ row'[j].fam = new[j].fam /\ row'[j].exp = new[j].exp /\ row'[j].indexed = row[j].indexed
    <3> DEFINE fresh == [rev |-> seq + 1, fam |-> new[j].fam, exp |-> new[j].exp, indexed |-> row[j].indexed]
    <3>1. fresh.rev = seq + 1 /\ fresh.fam = new[j].fam /\ fresh.exp = new[j].exp /\ fresh.indexed = row[j].indexed
      OBVIOUS
    <3>2. row'[j] = fresh
      BY <2>1, <2>2
    <3> HIDE DEF fresh
    <3>3. QED
      BY <3>1, <3>2
  <2>4. QED
    BY <2>1, <2>2, <2>3
<1>3. plan'[w] = [j \in batch \cup other |-> IF j \in batch THEN [rev |-> seq + 1, fam |-> new[j].fam, exp |-> new[j].exp]
                                                           ELSE plan[w][j]]
  BY DEF Commits, Commit, Carry, Lease
<1>4. \A x \in Worker \ {w} : plan'[x] = plan[x] /\ op[x] \notin ExclusiveOp /\ pc'[x] = pc[x] /\ pc[x] \notin {"valid", "published"}
  BY <1>1, NoneIsExclusive DEF Commits, Commit, Carry, Lease, TypeOK
<1>5. pc'[w] = "committed"
  BY <1>1 DEF TypeOK
<1>6. other \subseteq DOMAIN plan[w] /\ (other \subseteq batch \/ op[w] \in ExclusiveOp)
  BY DEF Commits
<1>7. \A j \in Job : row[j].rev \in Nat /\ row[j].indexed \in Nat /\ row[j].rev <= seq /\ row[j].indexed <= row[j].rev
  BY RowTypes DEF Rows
<1> HIDE DEF batch
<1>8. Rows'
  <2> SUFFICES ASSUME NEW j \in Job PROVE row'[j].rev <= seq' /\ row'[j].indexed <= row'[j].rev
    BY DEF Rows
  <2>1. CASE j \in batch
    <3>1. row'[j].rev = seq + 1 /\ row'[j].indexed = row[j].indexed
      BY <1>2, <2>1
    <3>2. QED
      BY <1>1, <1>7, <3>1
  <2>2. CASE j \notin batch
    BY <1>1, <1>2, <1>7, <2>2
  <2>3. QED
    BY <2>1, <2>2
<1>9. \A x \in Worker : \A j \in DOMAIN plan[x] : j \in Job /\ plan[x][j].rev \in Nat /\ plan[x][j].rev <= row[j].rev
  BY CommittedFacts DEF TypeOK, Plans
\* A worker that carries a row carries what it carried, and then the row is new or the same, or the new row.
<1>10. ASSUME NEW x \in Worker, NEW j \in DOMAIN plan'[x]
       PROVE  /\ j \in Job
              /\ \/ j \in DOMAIN plan[x] /\ plan'[x][j] = plan[x][j] /\ (j \in batch => x # w)
                 \/ /\ x = w /\ j \in batch
                    /\ plan'[x][j].rev = seq + 1 /\ plan'[x][j].fam = new[j].fam /\ plan'[x][j].exp = new[j].exp
  <2>1. CASE x = w
    BY <1>1, <1>2, <1>3, <1>6, <1>9, <2>1
  <2>2. CASE x # w
    BY <1>4, <1>9, <2>2
  <2>3. QED
    BY <2>1, <2>2
<1>11. Plans'
  <2> SUFFICES ASSUME NEW x \in Worker, NEW j \in DOMAIN plan'[x]
               PROVE  /\ plan'[x][j].rev <= row'[j].rev
                      /\ plan'[x][j].rev = row'[j].rev => plan'[x][j].fam = row'[j].fam /\ plan'[x][j].exp = row'[j].exp
                      /\ op'[x] \in ExclusiveOp => plan'[x][j].rev = row'[j].rev
    BY DEF Plans
  <2>1. j \in Job
    BY <1>10
  <2>2. CASE /\ x = w /\ j \in batch
             /\ plan'[x][j].rev = seq + 1 /\ plan'[x][j].fam = new[j].fam /\ plan'[x][j].exp = new[j].exp
    BY <1>1, <1>2, <2>2
  <2>3. CASE j \in DOMAIN plan[x] /\ plan'[x][j] = plan[x][j] /\ (j \in batch => x # w)
    <3>1. CASE j \in batch
      <4>1. row'[j].rev = seq + 1 /\ plan'[x][j].rev <= row[j].rev /\ plan'[x][j].rev \in Nat /\ op'[x] \notin ExclusiveOp
        BY <1>1, <1>2, <1>4, <1>9, <2>3, <3>1
      <4>2. QED
        BY <1>1, <1>7, <2>1, <4>1
    <3>2. CASE j \notin batch
      BY <1>1, <1>2, <2>1, <2>3, <3>2 DEF Plans
    <3>3. QED
      BY <3>1, <3>2
  <2>4. QED
    BY <1>10, <2>2, <2>3
<1>12. Entries'
  <2> SUFFICES ASSUME NEW v \in Namespace, NEW j \in Job PROVE Entry(v, j)'
    BY DEF Entries
  <2>1. Entry(v, j)
    BY DEF Others, Entries
  <2>2. CASE j \notin batch
    BY <1>1, <1>2, <2>1, <2>2 DEF Entry, Alive, AliveAt, Exists
  <2>3. CASE j \in batch
    <3>1. row'[j].rev = seq + 1 /\ member[v][j].rev <= row[j].rev /\ member[v][j].rev \in Nat
      BY <1>2, <2>1, <2>3, CatalogAssumption DEF Entry, TypeOK, Revision
    <3>2. member[v][j].rev < row'[j].rev
      BY <1>1, <1>7, <3>1
    <3>3. QED
      BY <1>1, <2>1, <3>1, <3>2 DEF Entry
  <2>4. QED
    BY <2>2, <2>3
<1>13. DraftSets'
  BY <1>1 DEF DraftSets, Others
<1>14. ASSUME NEW j \in Job, Vouched(j)' PROVE j \notin batch /\ Vouched(j)
  <2>1. CASE Confirmed(j)'
    <3>1. j \notin batch
      BY <1>1, <1>2, <1>7, <2>1 DEF Confirmed
    <3>2. QED
      BY <1>2, <2>1, <3>1 DEF Confirmed, Vouched, Exists
  <2>2. CASE \E x \in Worker : Landed(x, j)'
    <3>1. PICK x \in Worker : Landed(x, j)'
      BY <2>2
    <3>2. x # w /\ j \in DOMAIN plan[x] /\ plan[x][j].rev = row'[j].rev /\ pc[x] \in {"applied", "published"}
      BY <1>4, <1>5, <3>1 DEF Landed, Carries
    <3>3. j \notin batch
      BY <1>1, <1>2, <1>7, <1>9, <3>2
    <3>4. QED
      BY <1>2, <3>2, <3>3 DEF Landed, Carries, Vouched
  <2>3. QED
    BY <1>14, <2>1, <2>2 DEF Vouched
<1>15. VouchedInv'
  <2> SUFFICES ASSUME NEW j \in Job, Vouched(j)' PROVE Settled(j)' /\ Fenced(j)'
    BY DEF VouchedInv
  <2>1. j \notin batch /\ Settled(j) /\ Fenced(j) /\ row'[j] = row[j]
    BY <1>2, <1>14 DEF Others, VouchedInv
  <2>2. Settled(j)'
    BY <1>1, <2>1 DEF Settled, Alive, AliveAt, Exists, Shown
  <2>3. Fenced(j)'
    BY <1>1, <1>10, <2>1 DEF Fenced, Carries
  <2>4. QED
    BY <2>2, <2>3
<1>16. LateInv'
  <2> SUFFICES ASSUME NEW x \in Worker, NEW j \in DOMAIN plan'[x], member'[active'][j].rev > plan'[x][j].rev
               PROVE  member'[active'][j].until = Forever
    BY DEF LateInv, Late, Carries
  <2>1. member'[active'] = member[active] /\ active \in Namespace /\ j \in Job
    BY <1>1, <1>10 DEF TypeOK
  <2>2. Entry(active, j)
    BY <2>1 DEF Others, Entries
  <2>3. member[active][j].rev <= seq /\ member[active][j].rev \in Nat
    BY <1>1, <1>7, <2>1, <2>2, CatalogAssumption DEF Entry, TypeOK, Revision
  <2>4. plan'[x][j].rev # seq + 1
    BY <1>1, <2>1, <2>3
  <2>5. j \in DOMAIN plan[x] /\ plan'[x][j] = plan[x][j]
    BY <1>10, <2>4
  <2>6. QED
    BY <2>1, <2>5 DEF Others, LateInv, Late, Carries
<1>17. ValidInv'
  BY <1>4, <1>5 DEF ValidInv
<1>18. QED
  BY <1>8, <1>11, <1>12, <1>13, <1>15, <1>16, <1>17 DEF Others

-----------------------------------------------------------------------------
\* The other steps.

\* Nothing happens in the active namespace.
LEMMA ActiveStays ==
    ASSUME TypeOK, Lease, Rows, Plans, Others, StillRows, PlansFollow, UNCHANGED <<now, active>>,
           member'[active] = member[active], index'[active] = index[active],
           \A x \in Worker, j \in Job : Landed(x, j)' => Landed(x, j)
    PROVE  VouchedInv' /\ LateInv'
<1>1. ASSUME NEW j \in Job
      PROVE  /\ row'[j].rev = row[j].rev /\ row'[j].fam = row[j].fam /\ row'[j].exp = row[j].exp
             /\ Alive(j)' = Alive(j) /\ Exists(j)' = Exists(j)
  BY DEF StillRows, Alive, AliveAt, Exists
<1>2. ASSUME NEW x \in Worker, NEW j \in DOMAIN plan'[x]
      PROVE  /\ j \in Job
             /\ (j \in DOMAIN plan[x] /\ plan'[x][j] = plan[x][j]) \/ plan'[x][j].rev = row[j].rev
  <2>1. j \in Job /\ Follows(x, j)
    BY DEF PlansFollow
  <2>2. Carried(j).rev = row[j].rev
    BY DEF Carried
  <2>3. QED
    BY <2>1, <2>2 DEF Follows
<1>3. VouchedInv'
  <2> SUFFICES ASSUME NEW j \in Job, Vouched(j)' PROVE Settled(j)' /\ Fenced(j)'
    BY DEF VouchedInv
  <2>1. Vouched(j)
    BY <1>1 DEF StillRows, Vouched, Confirmed
  <2>2. Settled(j) /\ Fenced(j)
    BY <2>1 DEF Others, VouchedInv
  <2>3. Settled(j)'
    BY <1>1, <2>2 DEF Settled, Shown
  <2>4. Fenced(j)'
    <3>1. row[j].rev \in Nat
      BY RowTypes
    <3>2. QED
      BY <1>1, <1>2, <2>2, <3>1 DEF Fenced, Carries
  <2>5. QED
    BY <2>3, <2>4
<1>4. LateInv'
  <2> SUFFICES ASSUME NEW x \in Worker, NEW j \in DOMAIN plan'[x], member[active][j].rev > plan'[x][j].rev
               PROVE  member[active][j].until = Forever
    BY DEF LateInv, Late, Carries
  <2>1. j \in Job /\ active \in Namespace
    BY <1>2 DEF TypeOK
  <2>2. Entry(active, j)
    BY <2>1 DEF Others, Entries
  <2>3. member[active][j].rev <= row[j].rev /\ member[active][j].rev \in Nat /\ row[j].rev \in Nat
    BY <2>1, <2>2, RowTypes, CatalogAssumption DEF Entry, TypeOK, Revision
  <2>4. j \in DOMAIN plan[x] /\ plan'[x][j] = plan[x][j]
    BY <1>2, <2>3
  <2>5. QED
    BY <2>1, <2>4 DEF Others, LateInv, Late, Carries
<1>5. QED
  BY <1>3, <1>4

\* Nothing happens to the projections.
LEMMA QuietKeeps ==
    ASSUME TypeOK, Lease, Rows, Plans, Others, StillRows, PlansFollow, UNCHANGED <<now, active, kept, member, index, fset, until>>,
           \A x \in Worker, j \in Job : Landed(x, j)' => Landed(x, j),
           \A x \in Worker : pc'[x] = "valid" => \E v \in Namespace : ver'[x] = v /\ \A j \in Job : Fits(v, j)
    PROVE  Others'
<1>0. ASSUME NEW j \in Job
      PROVE  /\ row'[j].rev = row[j].rev /\ row'[j].fam = row[j].fam /\ row'[j].exp = row[j].exp
             /\ Alive(j)' = Alive(j) /\ Exists(j)' = Exists(j)
  BY DEF StillRows, Alive, AliveAt, Exists
<1>1. Entries'
  <2> SUFFICES ASSUME NEW v \in Namespace, NEW j \in Job PROVE Entry(v, j)'
    BY DEF Entries
  <2>1. Entry(v, j)
    BY DEF Others, Entries
  <2>2. QED
    BY <1>0, <2>1 DEF Entry
<1>2. DraftSets'
  BY DEF DraftSets, Others
<1>3. VouchedInv' /\ LateInv'
  BY ActiveStays
<1>4. ValidInv'
  <2> SUFFICES ASSUME NEW x \in Worker, pc'[x] = "valid", NEW j \in Job PROVE Fits(ver[x], j)'
    BY DEF ValidInv
  <2>1. PICK v \in Namespace : ver'[x] = v /\ \A k \in Job : Fits(v, k)
    OBVIOUS
  <2>2. QED
    BY <1>0, <2>1 DEF Fits
<1>5. QED
  BY <1>1, <1>2, <1>3, <1>4 DEF Others

\* What an entry holds.
LEMMA EntryTypes ==
    ASSUME TypeOK, NEW v \in Namespace, NEW j \in Job
    PROVE  /\ member[v][j].rev \in Nat /\ member[v][j].keys \subseteq Family /\ member[v][j].until \in Time \cup {Forever}
           /\ index[v][j] \in Time /\ index[v][j] \in Nat
<1>1. /\ member[v][j] \in [rev : Revision, keys : SUBSET Family, until : Time \cup {Forever}]
      /\ index[v][j] \in Time
  BY DEF TypeOK
<1>2. Revision \subseteq Nat /\ Time \subseteq Nat
  BY CatalogAssumption DEF Revision, Time
<1>3. QED
  BY <1>1, <1>2

\* An older revision gives way.  An entry that is not written is at the plan's revision or a later one, and shows no job that
\* is gone.
LEMMA ScriptGuard ==
    ASSUME TypeOK, NEW v \in Namespace, NEW j \in Job, NEW p \in Committed
    PROVE  /\ member[v][j].rev > p.rev => ~Applies(v, j, p, FALSE)
           /\ ~Applies(v, j, p, FALSE) =>
                 member[v][j].rev >= p.rev /\ (member[v][j].rev = p.rev /\ p.exp <= now => index[v][j] = 0)
<1> DEFINE old == Old(v, j, FALSE)
<1>1. member[v][j].rev \in Nat /\ p.rev \in Nat \ {0}
  BY EntryTypes, CommittedFacts
<1>2. member[v][j].rev > 0 => old = member[v][j]
  BY DEF Old
<1>3. member[v][j].rev = 0 => old.rev = 0
  BY <1>1, NothingTypes DEF Old, NoMember
<1>4. Applies(v, j, p, FALSE) <=>
          (old.rev < p.rev \/ (old.rev = p.rev /\ p.exp <= now /\ (old.keys # {} \/ index[v][j] # 0)))
  BY DEF Applies
<1> HIDE DEF old
<1>5. old.rev = member[v][j].rev
  <2>1. member[v][j].rev > 0 \/ member[v][j].rev = 0
    BY <1>1
  <2>2. QED
    BY <1>2, <1>3, <2>1
<1>6. Applies(v, j, p, FALSE) <=>
          (member[v][j].rev < p.rev \/ (member[v][j].rev = p.rev /\ p.exp <= now /\ (old.keys # {} \/ index[v][j] # 0)))
  BY <1>4, <1>5
<1>7. member[v][j].rev > p.rev => ~(member[v][j].rev < p.rev) /\ member[v][j].rev # p.rev
  BY <1>1
<1>8. ~(member[v][j].rev < p.rev) => member[v][j].rev >= p.rev
  BY <1>1
<1>9. QED
  BY <1>6, <1>7, <1>8, Zenon

\* What the script leaves of a job it writes.
LEMMA ScriptHit ==
    ASSUME TypeOK, NEW v \in Namespace, NEW p, DOMAIN p \subseteq Job, NEW draft \in BOOLEAN, ApplyScript(v, p, draft),
           NEW j \in Job, j \in Hits(v, p, draft)
    PROVE  /\ member'[v][j].rev = p[j].rev /\ member'[v][j].keys = Keys(p[j])
           /\ (draft => member'[v][j].until = DraftExpiry(p[j])) /\ (~draft => member'[v][j].until = Forever)
           /\ index'[v][j] = IF p[j].exp > now THEN p[j].exp ELSE 0
<1> DEFINE m == [rev |-> p[j].rev, keys |-> Keys(p[j]), until |-> IF draft THEN DraftExpiry(p[j]) ELSE Forever]
<1>1. m.rev = p[j].rev /\ m.keys = Keys(p[j]) /\ m.until = IF draft THEN DraftExpiry(p[j]) ELSE Forever
  OBVIOUS
<1>2. member'[v][j] = m /\ index'[v][j] = IF p[j].exp > now THEN p[j].exp ELSE 0
  BY ScriptJob
<1> HIDE DEF m
<1>3. QED
  BY <1>1, <1>2

\* The script keeps every namespace in order: a permanent one through writes, a draft through its own.
LEMMA ScriptKeeps ==
    ASSUME TypeOK, Entries, DraftSets, NEW v \in Namespace, NEW draft \in BOOLEAN, draft <=> v \notin kept,
           NEW p, DOMAIN p \subseteq Job,
           \A j \in DOMAIN p : /\ p[j] \in Committed /\ p[j].rev <= row[j].rev
                               /\ p[j].rev = row[j].rev => p[j].fam = row[j].fam /\ p[j].exp = row[j].exp,
           ApplyScript(v, p, draft), UNCHANGED <<now, row, kept>>
    PROVE  Entries' /\ DraftSets'
<1>0. now \in Nat /\ Forever \notin Nat /\ Forever \notin Time /\ Time \subseteq Nat
  BY TimeFacts DEF TypeOK
<1>1. ASSUME NEW u \in Namespace, u # v, NEW j \in Job PROVE Entry(u, j)'
  <2>1. member'[u] = member[u] /\ index'[u] = index[u] /\ fset'[u] = fset[u] /\ until'[u] = until[u]
    BY <1>1, ScriptElsewhere
  <2>2. Entry(u, j)
    BY DEF Entries
  <2>3. QED
    BY <2>1, <2>2 DEF Entry, Alive, AliveAt, Exists
<1>2. ASSUME NEW f \in Family
      PROVE  /\ until[v][f] \in Time \cup {Forever}
             /\ until'[v][f] \in Time \cup {Forever}
             /\ fset'[v][f] # {} /\ until'[v][f] # Forever => until[v][f] # Forever \/ draft
             /\ fset'[v][f] # {} /\ until'[v][f] # Forever /\ until[v][f] # Forever => until[v][f] <= until'[v][f]
             /\ until'[v][f] # Forever /\ fset'[v][f] # {} => \A j \in Into(v, p, draft, f) : p[j].exp <= until'[v][f]
             /\ fset'[v][f] # {} /\ until'[v][f] = Forever /\ draft => until[v][f] = Forever /\ fset[v][f] # {}
  <2>1. until[v][f] \in Time \cup {Forever}
    BY DEF TypeOK
  <2>2. QED
    BY <2>1, ScriptSet
<1>3. ASSUME NEW j \in Job, j \in Hits(v, p, draft) PROVE Entry(v, j)'
  <2>1. /\ j \in DOMAIN p /\ p[j] \in Committed /\ p[j].rev <= row[j].rev
        /\ p[j].rev = row[j].rev => p[j].fam = row[j].fam /\ p[j].exp = row[j].exp
        /\ p[j].exp \in Time /\ p[j].exp \in Nat /\ p[j].fam # {}
    BY <1>3, CommittedFacts DEF Hits
  <2>2. /\ member'[v][j] = [rev |-> p[j].rev, keys |-> Keys(p[j]), until |-> IF draft THEN DraftExpiry(p[j]) ELSE Forever]
        /\ index'[v][j] = IF p[j].exp > now THEN p[j].exp ELSE 0
        /\ \A f \in Family : f \in Keys(p[j]) => j \in fset'[v][f]
    BY <1>3, ScriptJob
  <2> DEFINE m == member'[v][j]
  <2>3. m.rev = p[j].rev /\ m.keys = Keys(p[j]) /\ m.until = IF draft THEN DraftExpiry(p[j]) ELSE Forever
    BY <2>2
  <2> HIDE DEF m
  <2>4. /\ Keys(p[j]) # {} <=> p[j].exp > now
        /\ Keys(p[j]) # {} => Keys(p[j]) = p[j].fam /\ index'[v][j] = p[j].exp /\ DraftExpiry(p[j]) = p[j].exp
        /\ Keys(p[j]) \subseteq Family
    BY <2>1, <2>2, CommittedFacts DEF Keys, DraftExpiry
  <2>5. Alive(j)' = Alive(j)
    BY DEF Alive, AliveAt, Exists
  <2>6. m.rev = row[j].rev /\ Alive(j) => m.keys # {} /\ \A f \in m.keys : j \in fset'[v][f]
    BY <2>1, <2>2, <2>3, <2>4 DEF Alive, AliveAt
  <2>7. m.keys # {} => m.until = Forever \/ m.until >= index'[v][j]
    BY <2>1, <2>3, <2>4
  <2>8. ASSUME NEW f \in m.keys, j \in fset'[v][f] PROVE until'[v][f] = Forever \/ until'[v][f] >= index'[v][j]
    <3>1. f \in Family /\ f \in Keys(p[j]) /\ index'[v][j] = p[j].exp /\ j \in Into(v, p, draft, f)
      BY <1>3, <2>3, <2>4, <2>8 DEF Into
    <3>2. QED
      BY <1>0, <1>2, <2>1, <2>8, <3>1
  <2>9. v \notin kept' /\ m.keys # {} => m.until = index'[v][j]
    BY <2>3, <2>4
  <2>10. QED
    BY <2>1, <2>3, <2>4, <2>5, <2>6, <2>7, <2>8, <2>9 DEF Entry, m
<1>4. ASSUME NEW j \in Job, j \notin Hits(v, p, draft) PROVE Entry(v, j)'
  <2>1. /\ member'[v][j] = member[v][j] /\ index'[v][j] = index[v][j]
        /\ \A f \in Family : j \in fset'[v][f] <=> j \in fset[v][f]
    BY <1>4, ScriptJob
  <2>2. Entry(v, j) /\ member[v][j].keys \subseteq Family /\ index[v][j] \in Nat
    BY EntryTypes DEF Entries
  <2>3. Alive(j)' = Alive(j)
    BY DEF Alive, AliveAt, Exists
  <2>4. ASSUME NEW f \in member[v][j].keys, j \in fset'[v][f] PROVE until'[v][f] = Forever \/ until'[v][f] >= index[v][j]
    <3>1. f \in Family /\ j \in fset[v][f] /\ (until[v][f] = Forever \/ until[v][f] >= index[v][j])
      BY <2>1, <2>2, <2>4 DEF Entry
    <3>2. CASE until'[v][f] = Forever
      BY <3>2
    <3>3. CASE until'[v][f] # Forever
      <4>1. until[v][f] # Forever
        BY <1>2, <2>4, <3>1, <3>3 DEF DraftSets
      <4>2. until[v][f] <= until'[v][f] /\ until[v][f] \in Nat /\ until'[v][f] \in Nat
        BY <1>0, <1>2, <2>4, <3>1, <3>3, <4>1
      <4>3. QED
        BY <2>2, <3>1, <4>1, <4>2
    <3>4. QED
      BY <3>2, <3>3
  <2>5. QED
    BY <2>1, <2>2, <2>3, <2>4 DEF Entry
<1>5. DraftSets'
  <2> SUFFICES ASSUME NEW u \in Namespace, u \notin kept, NEW f \in Family, fset'[u][f] # {} PROVE until'[u][f] # Forever
    BY DEF DraftSets
  <2>1. CASE u = v
    BY <1>2, <2>1 DEF DraftSets
  <2>2. CASE u # v
    BY <2>2, ScriptElsewhere DEF DraftSets
  <2>3. QED
    BY <2>1, <2>2
<1>6. QED
  BY <1>1, <1>3, <1>4, <1>5 DEF Entries

\* A late or repeated write of an older revision gives way; one at the row's revision settles the job.
LEMMA ApplyKeeps ==
    ASSUME TypeOK, Lease, Rows, Plans, Others, NEW w \in Worker, Apply(w) \/ ApplyUnanswered(w)
    PROVE  Others'
<1>1. /\ pc[w] = "versioned" /\ UNCHANGED <<now, row, kept, op>>
      /\ ApplyScript(active, plan[w], FALSE)
      /\ \/ Resume(w, "ready")
         \/ Go(w, "applied") /\ UNCHANGED <<plan, ver>>
         \/ Go(w, "committed") /\ UNCHANGED <<plan, ver>>
  BY DEF Apply, ApplyUnanswered, ApplyActive, catalog
<1>2. PICK v \in Namespace : v = active
  BY DEF TypeOK
<1>3. PICK p : p = plan[w]
  OBVIOUS
<1>4. /\ DOMAIN p \subseteq Job
      /\ \A j \in DOMAIN p : /\ p[j] \in Committed /\ p[j].rev <= row[j].rev
                             /\ p[j].rev = row[j].rev => p[j].fam = row[j].fam /\ p[j].exp = row[j].exp
                             /\ p[j].rev \in Nat \ {0} /\ p[j].exp \in Nat
  BY <1>3, CommittedFacts DEF TypeOK, Plans
<1>5. ApplyScript(v, p, FALSE) /\ v \in kept /\ active' = v
  <2>1. ApplyScript(v, p, FALSE) /\ v \in kept
    BY <1>1, <1>2, <1>3 DEF TypeOK
  <2>2. active' = v
    BY <1>2, <1>4, <2>1, TypeScript
  <2>3. QED
    BY <2>1, <2>2
<1>6. Entries' /\ DraftSets'
  BY <1>1, <1>4, <1>5, ScriptKeeps DEF Others
<1>7. \A j \in Job : j \in Hits(v, p, FALSE) <=> j \in DOMAIN p /\ Applies(v, j, p[j], FALSE)
  BY DEF Hits
<1>8. ASSUME NEW j \in Job
      PROVE  /\ j \notin Hits(v, p, FALSE) => member'[v][j] = member[v][j] /\ index'[v][j] = index[v][j]
             /\ j \in Hits(v, p, FALSE) => /\ member'[v][j].rev = p[j].rev /\ member'[v][j].until = Forever
                                           /\ index'[v][j] = IF p[j].exp > now THEN p[j].exp ELSE 0
             /\ Alive(j)' = Alive(j) /\ Exists(j)' = Exists(j)
             /\ member[v][j].rev \in Nat /\ member[v][j].rev <= row[j].rev /\ row[j].rev \in Nat /\ index[v][j] \in Nat
  <2>1. Entry(v, j) /\ row[j].rev \in Nat
    BY RowTypes DEF Others, Entries
  <2>2. member[v][j].rev \in Nat /\ index[v][j] \in Nat
    BY EntryTypes, <1>2 DEF TypeOK
  <2>3. Alive(j)' = Alive(j) /\ Exists(j)' = Exists(j)
    BY <1>1 DEF Alive, AliveAt, Exists
  <2>4. member[v][j].rev <= row[j].rev
    BY <2>1 DEF Entry
  <2>5. j \notin Hits(v, p, FALSE) => member'[v][j] = member[v][j] /\ index'[v][j] = index[v][j]
    BY <1>4, <1>5, ScriptJob
  <2>6. ASSUME j \in Hits(v, p, FALSE)
        PROVE  /\ member'[v][j].rev = p[j].rev /\ member'[v][j].until = Forever
               /\ index'[v][j] = IF p[j].exp > now THEN p[j].exp ELSE 0
    <3>1. ApplyScript(v, p, FALSE) /\ DOMAIN p \subseteq Job /\ j \in Hits(v, p, FALSE)
      BY <1>4, <1>5, <2>6
    <3>2. member'[v][j].rev = p[j].rev
      BY <3>1, ScriptHit
    <3>3. member'[v][j].until = Forever
      BY <3>1, ScriptHit
    <3>4. index'[v][j] = IF p[j].exp > now THEN p[j].exp ELSE 0
      BY <3>1, ScriptHit
    <3>5. QED
      BY <3>2, <3>3, <3>4
  <2>7. QED
    BY <2>1, <2>2, <2>3, <2>4, <2>5, <2>6
\* An entry at a later revision is not written.
<1>9. ASSUME NEW j \in Job, j \in DOMAIN p, member[v][j].rev > p[j].rev PROVE j \notin Hits(v, p, FALSE)
  BY <1>4, <1>7, <1>9, ScriptGuard
\* An entry that is not written is at the plan's revision or a later one, and shows no job that is gone.
<1>10. ASSUME NEW j \in Job, j \in DOMAIN p, j \notin Hits(v, p, FALSE)
       PROVE  member[v][j].rev >= p[j].rev /\ (member[v][j].rev = p[j].rev /\ p[j].exp <= now => index[v][j] = 0)
  BY <1>4, <1>7, <1>10, ScriptGuard
<1>11. \A x \in Worker : DOMAIN plan'[x] = {} \/ plan'[x] = plan[x]
  BY <1>1, ResumeFacts DEF Resume, Carry, TypeOK, Lease
<1>12. \A x \in Worker : pc'[x] \in {"applied", "published"} /\ DOMAIN plan'[x] # {} => pc'[x] = pc[x] \/ x = w
  BY <1>1 DEF Resume, Go, TypeOK
<1>13. ASSUME NEW j \in Job, Vouched(j)' PROVE Vouched(j) \/ (j \in DOMAIN p /\ p[j].rev = row[j].rev)
  <2>1. CASE Confirmed(j)'
    BY <1>1, <2>1 DEF Confirmed, Vouched, Exists
  <2>2. CASE \E x \in Worker : Landed(x, j)'
    <3>1. PICK x \in Worker : Landed(x, j)'
      BY <2>2
    <3>2. j \in DOMAIN plan[x] /\ plan'[x] = plan[x] /\ plan[x][j].rev = row[j].rev /\ pc'[x] \in {"applied", "published"}
      BY <1>1, <1>11, <3>1 DEF Landed, Carries
    <3>3. pc'[x] = pc[x] \/ x = w
      BY <1>12, <3>2
    <3>4. QED
      BY <1>3, <3>2, <3>3 DEF Landed, Carries, Vouched
  <2>3. QED
    BY <1>13, <2>1, <2>2 DEF Vouched
<1>14. VouchedInv'
  <2> SUFFICES ASSUME NEW j \in Job, Vouched(j)' PROVE Settled(j)' /\ Fenced(j)'
    BY DEF VouchedInv
  <2>0. Alive(j) <=> Exists(j) /\ row[j].exp > now
    BY DEF Alive, AliveAt
  <2>1. CASE j \in DOMAIN p /\ p[j].rev = row[j].rev
    <3>0. p[j].exp = row[j].exp /\ now \in Nat /\ p[j].exp \in Nat
      BY <1>4, <2>1, TimeFacts DEF TypeOK
    <3>1. member'[v][j].rev = row[j].rev /\ (row[j].exp <= now => index'[v][j] = 0)
      <4>1. CASE j \in Hits(v, p, FALSE)
        <5>1. member'[v][j].rev = p[j].rev /\ index'[v][j] = IF p[j].exp > now THEN p[j].exp ELSE 0
          BY <1>8, <4>1
        <5>2. p[j].exp <= now => ~(p[j].exp > now)
          BY <3>0
        <5>3. QED
          BY <2>1, <3>0, <5>1, <5>2
      <4>2. CASE j \notin Hits(v, p, FALSE)
        <5>1. member'[v][j] = member[v][j] /\ index'[v][j] = index[v][j] /\ member[v][j].rev <= row[j].rev
          BY <1>8, <4>2
        <5>2. member[v][j].rev >= row[j].rev /\ (member[v][j].rev = row[j].rev /\ row[j].exp <= now => index[v][j] = 0)
          BY <1>10, <2>1, <3>0, <4>2
        <5>3. member[v][j].rev \in Nat /\ row[j].rev \in Nat
          BY <1>8
        <5>4. member[v][j].rev = row[j].rev
          BY <5>1, <5>2, <5>3
        <5>5. QED
          BY <5>1, <5>2, <5>4
      <4>3. QED
        BY <4>1, <4>2
    <3>2. Exists(j) /\ row[j].exp \in Nat
      BY <1>4, <2>1, RowTypes DEF Exists
    <3>3. now \in Nat
      BY TimeFacts DEF TypeOK
    <3>4. Settled(j)'
      <4>1. CASE Alive(j)
        BY <1>1, <1>5, <1>8, <3>1, <4>1 DEF Settled
      <4>2. CASE ~Alive(j)
        <5>1. index'[v][j] = 0 /\ ~(0 > now)
          BY <2>0, <3>1, <3>2, <3>3, <4>2
        <5>2. Shown(j)' = 0
          BY <1>1, <1>5, <5>1 DEF Shown
        <5>3. QED
          BY <1>8, <4>2, <5>2 DEF Settled
      <4>3. QED
        BY <4>1, <4>2
    <3>5. Fenced(j)'
      BY <1>1, <1>5, <3>1 DEF Fenced
    <3>6. QED
      BY <3>4, <3>5
  <2>2. CASE Vouched(j) /\ (j \in DOMAIN p => p[j].rev < row[j].rev)
    <3>1. Settled(j) /\ Fenced(j)
      BY <2>2 DEF Others, VouchedInv
    <3>2. j \notin Hits(v, p, FALSE)
      <4>1. j \in DOMAIN p => member[v][j].rev = row[j].rev
        BY <1>2, <1>3, <2>2, <3>1 DEF Fenced, Carries
      <4>2. QED
        BY <1>7, <1>9, <2>2, <4>1
    <3>3. member'[v][j] = member[v][j] /\ index'[v][j] = index[v][j]
      BY <1>8, <3>2
    <3>4. Settled(j)'
      BY <1>1, <1>2, <1>5, <1>8, <3>1, <3>3 DEF Settled, Shown
    <3>5. Fenced(j)'
      BY <1>1, <1>2, <1>5, <1>11, <3>1, <3>3 DEF Fenced, Carries
    <3>6. QED
      BY <3>4, <3>5
  <2>3. ASSUME j \in DOMAIN p PROVE p[j].rev = row[j].rev \/ p[j].rev < row[j].rev
    <3>1. p[j].rev <= row[j].rev /\ p[j].rev \in Nat
      BY <1>4, <2>3
    <3>2. row[j].rev \in Nat
      BY <1>8
    <3>3. QED
      BY <3>1, <3>2
  <2>4. QED
    BY <1>13, <2>1, <2>2, <2>3
<1>15. LateInv'
  <2> SUFFICES ASSUME NEW x \in Worker, NEW j \in DOMAIN plan'[x], j \in Job, member'[v][j].rev > plan'[x][j].rev
               PROVE  member'[v][j].until = Forever
    BY <1>5 DEF LateInv, Late, Carries
  <2>1. j \in DOMAIN plan[x] /\ plan'[x] = plan[x]
    BY <1>11
  <2>2. QED
    BY <1>2, <1>8, <2>1 DEF Others, LateInv, Late, Carries
<1>16. ValidInv'
  <2> SUFFICES ASSUME NEW x \in Worker, pc'[x] = "valid" PROVE FALSE
    BY DEF ValidInv
  <2>1. x # w
    BY <1>1 DEF Resume, Go, TypeOK
  <2>2. pc'[x] = pc[x]
    BY <1>1, <2>1 DEF Resume, Go, TypeOK
  <2>3. QED
    BY <1>1, <2>1, <2>2, NoneIsExclusive
<1>17. QED
  BY <1>6, <1>14, <1>15, <1>16 DEF Others

\* A draft is written beside the active namespace, with what the rows say.
LEMMA DraftKeeps ==
    ASSUME TypeOK, Lease, Rows, Plans, Others, StillRows, PlansFollow, NEW w \in Worker, Draft(w)
    PROVE  Others'
<1>1. PICK j \in Job \ DOMAIN plan[w] : /\ AliveAt(j, at[w])
                                        /\ Carry(w, [k \in DOMAIN plan[w] \cup {j} |-> Carried(k)])
                                        /\ ApplyScript(ver[w], [k \in {j} |-> Carried(k)], TRUE)
  BY DEF Draft
<1>2. PICK v \in Namespace : v = ver[w]
  BY DEF TypeOK
<1>3. PICK p : p = [k \in {j} |-> Carried(k)]
  OBVIOUS
<1>4. /\ UNCHANGED <<now, row, kept, op, pc, ver>> /\ pc[w] = "drafting" /\ op[w] \in ExclusiveOp
      /\ v \notin kept /\ active \in kept /\ active \in Namespace /\ active # v
  BY <1>2 DEF Draft, Lease, TypeOK, catalog, ExclusiveOp
<1>5. ApplyScript(v, p, TRUE) /\ active' = active
  <2>1. ApplyScript(v, p, TRUE)
    BY <1>1, <1>2, <1>3
  <2>2. QED
    BY <2>1 DEF ApplyScript
<1>6. DOMAIN p \subseteq Job /\ \A k \in DOMAIN p : k = j /\ p[k] = Carried(j)
  BY <1>3
<1>7. Carried(j) \in Committed /\ Carried(j).rev = row[j].rev /\ Carried(j).fam = row[j].fam /\ Carried(j).exp = row[j].exp
      /\ row[j].rev \in Nat
  <2>1. Exists(j)
    BY <1>1 DEF AliveAt
  <2>2. QED
    BY <2>1, RowTypes DEF Carried
<1>8. \A k \in DOMAIN p : /\ p[k] \in Committed /\ p[k].rev <= row[k].rev
                          /\ p[k].rev = row[k].rev => p[k].fam = row[k].fam /\ p[k].exp = row[k].exp
  BY <1>6, <1>7
<1>9. Entries' /\ DraftSets'
  BY <1>4, <1>5, <1>6, <1>8, ScriptKeeps DEF Others
<1>10. member'[active] = member[active] /\ index'[active] = index[active]
  BY <1>4, <1>5, ScriptElsewhere
<1>11. \A x \in Worker \ {w} : plan'[x] = plan[x]
  BY <1>1 DEF Carry, TypeOK, Lease
<1>12. \A x \in Worker, k \in Job : Landed(x, k)' => Landed(x, k)
  BY <1>4, <1>11 DEF Landed, Carries
<1>13. VouchedInv' /\ LateInv'
  BY <1>4, <1>5, <1>10, <1>12, ActiveStays
<1>14. ValidInv'
  BY <1>4, OthersAreIdle DEF ValidInv
<1>15. QED
  BY <1>9, <1>13, <1>14 DEF Others

\* What is published fits the catalog, and nobody else is at work.
LEMMA PublishKeeps ==
    ASSUME TypeOK, Lease, Rows, Plans, Others, NEW w \in Worker, Publish(w)
    PROVE  Others'
<1>1. /\ pc[w] = "valid" /\ active' = ver[w] /\ kept' = kept \cup {ver[w]} /\ op[w] \in ExclusiveOp
      /\ UNCHANGED <<now, row, member, index, fset, until, op>>
      /\ \/ Go(w, "published") /\ UNCHANGED <<plan, ver>>
         \/ Resume(w, "ready")
  BY DEF Publish, Published, catalog, entries, Lease, ExclusiveOp
<1>2. PICK v \in Namespace : v = ver[w]
  BY DEF TypeOK
<1>3. ASSUME NEW j \in Job
      PROVE  Alive(j)' = Alive(j) /\ row'[j] = row[j] /\ row[j].rev \in Nat /\ Fits(v, j)
  BY <1>1, <1>2, RowTypes DEF Alive, AliveAt, Exists, Others, ValidInv
<1>4. Entries'
  <2> SUFFICES ASSUME NEW u \in Namespace, NEW j \in Job PROVE Entry(u, j)'
    BY DEF Entries
  <2>1. Entry(u, j)
    BY DEF Others, Entries
  <2>2. QED
    BY <1>1, <1>3, <2>1 DEF Entry
<1>5. DraftSets'
  BY <1>1 DEF DraftSets, Others
<1>6. ASSUME NEW x \in Worker, NEW j \in DOMAIN plan'[x] PROVE j \in Job /\ plan'[x][j].rev = row[j].rev
  <2>1. DOMAIN plan'[x] = {} \/ plan'[x] = plan[x]
    BY <1>1, ResumeFacts DEF Resume, Carry, TypeOK, Lease
  <2>2. x = w
    BY <1>1, <1>6, <2>1, OthersAreIdle
  <2>3. QED
    BY <1>1, <1>6, <2>1, <2>2 DEF Plans, TypeOK
<1>7. VouchedInv'
  <2> SUFFICES ASSUME NEW j \in Job PROVE Settled(j)' /\ Fenced(j)'
    BY DEF VouchedInv
  <2>1. active' = v /\ index[v][j] \in Nat /\ now \in Nat
    BY <1>1, <1>2, EntryTypes, TimeFacts DEF TypeOK
  <2>2. Settled(j)'
    <3>1. CASE Alive(j)
      BY <1>1, <1>3, <2>1, <3>1 DEF Settled, Fits
    <3>2. CASE ~Alive(j)
      <4>1. ~(index[v][j] > now)
        BY <1>3, <2>1, <3>2 DEF Fits
      <4>2. Shown(j)' = 0
        BY <1>1, <2>1, <4>1 DEF Shown
      <4>3. QED
        BY <1>3, <3>2, <4>2 DEF Settled
    <3>3. QED
      BY <3>1, <3>2
  <2>3. Fenced(j)'
    BY <1>3, <1>6 DEF Fenced, Carries
  <2>4. QED
    BY <2>2, <2>3
<1>8. LateInv'
  <2> SUFFICES ASSUME NEW x \in Worker, NEW j \in DOMAIN plan'[x], j \in Job, member'[active'][j].rev > plan'[x][j].rev PROVE FALSE
    BY DEF LateInv, Late, Carries
  <2>1. Entry(v, j) /\ member'[active'][j] = member[v][j] /\ member[v][j].rev \in Nat
    BY <1>1, <1>2, EntryTypes DEF Others, Entries
  <2>2. member[v][j].rev > row[j].rev /\ member[v][j].rev <= row[j].rev /\ row[j].rev \in Nat
    BY <1>3, <1>6, <2>1 DEF Entry
  <2>3. QED
    BY <2>1, <2>2
<1>9. ValidInv'
  <2>1. pc'[w] # "valid"
    BY <1>1 DEF Resume, Go, TypeOK
  <2>2. \A x \in Worker \ {w} : pc'[x] = "idle"
    BY <1>1, OthersAreIdle DEF Resume, Go, TypeOK
  <2>3. QED
    BY <2>1, <2>2 DEF ValidInv
<1>10. QED
  BY <1>4, <1>5, <1>7, <1>8, <1>9 DEF Others

\* Time passes: what still describes a job that lives does not expire.
LEMMA TickKeeps ==
    ASSUME TypeOK, Lease, Rows, Plans, Others, Tick
    PROVE  Others'
<1>1. now \in Nat /\ now' = now + 1 /\ UNCHANGED <<row, active, kept, op, pc, plan, ver>> /\ Forever \notin Nat
  BY TimeFacts DEF Tick, TypeOK, catalog, local
<1>2. ASSUME NEW j \in Job
      PROVE  /\ row[j].rev \in Nat /\ row[j].exp \in Nat /\ (Alive(j)' <=> Exists(j) /\ row[j].exp > now + 1)
             /\ Alive(j)' => Alive(j) /\ row[j].rev > 0
             /\ Alive(j) /\ ~Alive(j)' => row[j].exp <= now + 1
  BY <1>1, RowTypes DEF Alive, AliveAt, Exists
<1>3. ASSUME NEW v \in Namespace, NEW j \in Job
      PROVE  /\ member'[v][j] = IF member[v][j].until \in 0..(now + 1) THEN NoMember ELSE member[v][j]
             /\ index'[v][j] = index[v][j] \/ (index'[v][j] = 0 /\ v \notin kept /\ index[v][j] <= now + 1)
             /\ member[v][j].rev \in Nat /\ member[v][j].keys \subseteq Family /\ index[v][j] \in Nat
             /\ member[v][j].until = Forever \/ member[v][j].until \in Nat
             /\ Entry(v, j)
  BY EntryTypes, TimeFacts DEF Tick, Others, Entries
<1>4. ASSUME NEW v \in Namespace, NEW f \in Family
      PROVE  /\ fset'[v][f] = IF until[v][f] \in 0..(now + 1) THEN {} ELSE fset[v][f]
             /\ until'[v][f] = IF until[v][f] \in 0..(now + 1) THEN Forever ELSE until[v][f]
             /\ until[v][f] = Forever \/ until[v][f] \in Nat
  <2>1. until[v][f] \in Time \cup {Forever}
    BY DEF TypeOK
  <2>2. /\ fset'[v][f] = IF until[v][f] \in 0..(now + 1) THEN {} ELSE fset[v][f]
        /\ until'[v][f] = IF until[v][f] \in 0..(now + 1) THEN Forever ELSE until[v][f]
    BY DEF Tick
  <2>3. QED
    BY <2>1, <2>2, TimeFacts
\* An entry that is dropped was about a job whose score has passed.
<1>5. ASSUME NEW v \in Namespace, NEW j \in Job, member[v][j].keys # {}, index[v][j] > now + 1
      PROVE  member'[v][j] = member[v][j] /\ index'[v][j] = index[v][j]
  <2>1. member[v][j].until = Forever \/ member[v][j].until >= index[v][j]
    BY <1>3, <1>5 DEF Entry
  <2>2. member[v][j].until \notin 0..(now + 1)
    BY <1>1, <1>3, <1>5, <2>1
  <2>3. index'[v][j] = index[v][j]
    BY <1>1, <1>3, <1>5
  <2>4. QED
    BY <1>3, <2>2, <2>3
\* What is at the revision of a job that lives stays.
<1>6. ASSUME NEW v \in Namespace, NEW j \in Job, Alive(j), member[v][j].rev = row[j].rev
      PROVE  /\ member[v][j].keys # {} /\ index[v][j] = row[j].exp
             /\ Alive(j)' => member'[v][j] = member[v][j] /\ index'[v][j] = index[v][j] /\ index[v][j] > now + 1
  <2>1. member[v][j].keys # {} /\ index[v][j] = row[j].exp
    BY <1>3, <1>6 DEF Entry
  <2>2. QED
    BY <1>2, <1>5, <2>1
<1>7. ASSUME NEW v \in Namespace, NEW j \in Job PROVE Entry(v, j)'
  <2>1. CASE member[v][j].until \in 0..(now + 1)
    <3>1. member'[v][j].rev = 0 /\ member'[v][j].keys = {}
      BY <1>3, <2>1, NothingTypes
    <3>2. QED
      BY <1>1, <1>2, <3>1 DEF Entry
  <2>2. CASE member[v][j].until \notin 0..(now + 1) /\ index'[v][j] = index[v][j]
    <3>1. member'[v][j] = member[v][j]
      BY <1>3, <2>2
    <3>2. ASSUME member[v][j].rev = row[j].rev, Alive(j)', NEW f \in member[v][j].keys PROVE j \in fset'[v][f]
      <4>1. f \in Family /\ Alive(j)
        BY <1>2, <1>3, <3>2
      <4>2. j \in fset[v][f] /\ (until[v][f] = Forever \/ until[v][f] >= index[v][j])
        BY <1>3, <3>2, <4>1 DEF Entry
      <4>3. until[v][f] \notin 0..(now + 1)
        <5>1. index[v][j] > now + 1 /\ index[v][j] \in Nat
          BY <1>3, <1>6, <3>2, <4>1
        <5>2. CASE until[v][f] = Forever
          BY <1>1, <5>2
        <5>3. CASE until[v][f] \in Nat /\ until[v][f] >= index[v][j]
          BY <1>1, <5>1, <5>3
        <5>4. QED
          BY <1>4, <4>1, <4>2, <5>2, <5>3
      <4>4. QED
        BY <1>4, <4>1, <4>2, <4>3
    <3>3. ASSUME NEW f \in member[v][j].keys, j \in fset'[v][f] PROVE until'[v][f] = Forever \/ until'[v][f] >= index[v][j]
      <4>1. f \in Family
        BY <1>3
      <4>2. j \in fset[v][f] /\ until'[v][f] = until[v][f]
        BY <1>4, <3>3, <4>1
      <4>3. QED
        BY <1>3, <4>2 DEF Entry
    <3>4. Alive(j)' => Alive(j)
      BY <1>2
    <3>5. QED
      BY <1>1, <1>3, <2>2, <3>1, <3>2, <3>3, <3>4 DEF Entry
  <2>3. CASE member[v][j].until \notin 0..(now + 1) /\ index'[v][j] = 0 /\ v \notin kept /\ index[v][j] <= now + 1
    <3>1. member'[v][j] = member[v][j]
      BY <1>3, <2>3
    <3>2. member[v][j].keys = {}
      <4>1. member[v][j].keys # {} => member[v][j].until = index[v][j]
        BY <1>3, <2>3 DEF Entry
      <4>2. QED
        BY <1>1, <1>3, <2>3, <4>1
    <3>3. member[v][j].rev = row[j].rev => ~Alive(j)'
      BY <1>2, <1>6, <3>2
    <3>4. QED
      BY <1>1, <1>3, <3>1, <3>2, <3>3 DEF Entry
  <2>4. QED
    BY <1>3, <2>1, <2>2, <2>3
<1>8. DraftSets'
  <2> SUFFICES ASSUME NEW v \in Namespace, v \notin kept, NEW f \in Family, fset'[v][f] # {} PROVE until'[v][f] # Forever
    BY <1>1 DEF DraftSets
  <2>1. until'[v][f] = until[v][f] /\ fset[v][f] # {}
    BY <1>4
  <2>2. QED
    BY <2>1 DEF DraftSets, Others
<1>9. active \in Namespace /\ active \in kept
  BY DEF TypeOK
\* What outlasts a plan does not expire.
<1>10. ASSUME NEW x \in Worker, NEW j \in DOMAIN plan[x], member[active][j].rev > plan[x][j].rev
       PROVE  member'[active][j] = member[active][j] /\ member[active][j].until = Forever
  <2>1. j \in Job /\ member[active][j].until = Forever
    BY <1>10 DEF Others, LateInv, Late, Carries, TypeOK
  <2>2. QED
    BY <1>1, <1>3, <1>9, <2>1
<1>11. VouchedInv'
  <2> SUFFICES ASSUME NEW j \in Job, Vouched(j)' PROVE Settled(j)' /\ Fenced(j)'
    BY DEF VouchedInv
  <2>1. Vouched(j)
    BY <1>1 DEF Vouched, Confirmed, Landed, Carries, Exists
  <2>2. Settled(j) /\ Fenced(j)
    BY <2>1 DEF Others, VouchedInv
  <2>3. index'[active][j] = index[active][j] /\ index[active][j] \in Nat /\ member[active][j].rev \in Nat
    BY <1>3, <1>9
  <2>4. Settled(j)'
    <3>1. CASE Alive(j)'
      <4>1. Alive(j) /\ member[active][j].rev = row[j].rev
        BY <1>2, <2>2, <3>1 DEF Settled
      <4>2. member'[active][j] = member[active][j]
        BY <1>6, <1>9, <3>1, <4>1
      <4>3. QED
        BY <1>1, <3>1, <4>1, <4>2 DEF Settled
    <3>2. CASE ~Alive(j)' /\ Alive(j)
      <4>1. member[active][j].rev = row[j].rev
        BY <2>2, <3>2 DEF Settled
      <4>2. index[active][j] = row[j].exp /\ row[j].exp <= now + 1
        BY <1>2, <1>6, <1>9, <3>2, <4>1
      <4>3. ~(index'[active'][j] > now')
        BY <1>1, <2>3, <4>2
      <4>4. QED
        BY <3>2, <4>3 DEF Settled, Shown
    <3>3. CASE ~Alive(j)' /\ ~Alive(j)
      <4>1. Shown(j) = 0
        BY <2>2, <3>3 DEF Settled
      <4>2. index'[active'][j] > now' => index[active][j] > now
        BY <1>1, <2>3
      <4>3. index[active][j] > now => member[active][j].rev = 0
        BY <4>1 DEF Shown
      <4>4. member[active][j].rev = 0 => member'[active'][j].rev = 0
        BY <1>1, <1>3, <1>9, NothingTypes
      <4>5. Shown(j)' = 0
        BY <4>2, <4>3, <4>4 DEF Shown
      <4>6. QED
        BY <3>3, <4>5 DEF Settled
    <3>4. QED
      BY <3>1, <3>2, <3>3
  <2>5. Fenced(j)'
    <3> SUFFICES ASSUME NEW x \in Worker, j \in DOMAIN plan[x], plan[x][j].rev < row[j].rev PROVE member'[active][j].rev = row[j].rev
      BY <1>1 DEF Fenced, Carries
    <3>1. member[active][j].rev = row[j].rev
      BY <2>2 DEF Fenced, Carries
    <3>2. plan[x][j].rev \in Nat /\ row[j].rev \in Nat
      BY <1>2, CommittedFacts DEF TypeOK
    <3>3. QED
      BY <1>10, <3>1, <3>2
  <2>6. QED
    BY <2>4, <2>5
<1>12. LateInv'
  <2> SUFFICES ASSUME NEW x \in Worker, NEW j \in DOMAIN plan[x], member'[active][j].rev > plan[x][j].rev
               PROVE  member'[active][j].until = Forever
    BY <1>1 DEF LateInv, Late, Carries
  <2>1. j \in Job /\ plan[x][j].rev \in Nat
    BY CommittedFacts DEF TypeOK
  <2>2. member'[active][j] = member[active][j]
    <3>1. NoMember.rev = 0 /\ ~(0 > plan[x][j].rev)
      BY <2>1, NothingTypes
    <3>2. QED
      BY <1>3, <1>9, <2>1, <3>1
  <2>3. QED
    BY <1>10, <2>2
<1>13. ValidInv'
  <2> SUFFICES ASSUME NEW x \in Worker, pc[x] = "valid", NEW j \in Job PROVE Fits(ver[x], j)'
    BY <1>1 DEF ValidInv
  <2>1. PICK v \in Namespace : v = ver[x]
    BY DEF TypeOK
  <2>2. Fits(v, j)
    BY <2>1 DEF Others, ValidInv
  <2>3. index'[v][j] = index[v][j] \/ index'[v][j] = 0
    BY <1>3
  <2>4. CASE Alive(j)'
    <3>1. Alive(j) /\ member[v][j].rev = row[j].rev
      BY <1>2, <2>2, <2>4 DEF Fits
    <3>2. member'[v][j] = member[v][j]
      BY <1>6, <2>4, <3>1
    <3>3. QED
      BY <1>1, <2>1, <2>4, <3>1, <3>2 DEF Fits
  <2>5. CASE ~Alive(j)'
    <3>1. index[v][j] <= now + 1
      <4>1. CASE Alive(j)
        BY <1>2, <1>6, <2>2, <2>5, <4>1 DEF Fits
      <4>2. CASE ~Alive(j)
        BY <1>1, <1>3, <2>2, <4>2 DEF Fits
      <4>3. QED
        BY <4>1, <4>2
    <3>2. index'[v][j] <= now'
      BY <1>1, <2>3, <3>1
    <3>3. QED
      BY <1>1, <2>1, <2>5, <3>2 DEF Fits
  <2>6. QED
    BY <2>4, <2>5
<1>14. QED
  BY <1>7, <1>8, <1>11, <1>12, <1>13 DEF Others, Entries
-----------------------------------------------------------------------------
\* The invariant.

\* A namespace that matches the catalog fits it.
LEMMA SyncedFits ==
    ASSUME TypeOK, NEW v \in Namespace, Synced(v), NEW j \in Job
    PROVE  Fits(v, j)
<1>1. CASE Alive(j)
  BY <1>1 DEF Synced, Matches, Fits
<1>2. CASE ~Alive(j)
  <2>1. index[v][j] = 0 /\ now \in Nat
    BY <1>2, TimeFacts DEF Synced, TypeOK
  <2>2. QED
    BY <1>2, <2>1 DEF Fits
<1>3. QED
  BY <1>1, <1>2

LEMMA OthersInit == Init => Rows /\ Plans /\ Others
<1> SUFFICES ASSUME Init PROVE Rows /\ Plans /\ Others
  OBVIOUS
<1>1. TypeOK
  BY TypeInit
<1>2. /\ row = [j \in Job |-> NoRow] /\ seq = 0 /\ active = Bootstrap /\ kept = {Bootstrap}
      /\ \A w \in Worker : DOMAIN plan[w] = {} /\ pc[w] = "idle"
      /\ \A v \in Namespace, j \in Job : member[v][j] = NoMember /\ index[v][j] = 0
      /\ \A v \in Namespace, f \in Family : fset[v][f] = {}
  BY NothingTypes DEF Init
<1>3. \A j \in Job : row[j].rev = 0 /\ row[j].indexed = 0 /\ ~Exists(j) /\ ~Alive(j)
  BY <1>2, NothingTypes DEF Exists, Alive, AliveAt
<1>4. Rows /\ Plans
  BY <1>2, <1>3 DEF Rows, Plans
<1>5. Entries
  <2> SUFFICES ASSUME NEW v \in Namespace, NEW j \in Job PROVE Entry(v, j)
    BY DEF Entries
  <2>1. member[v][j].rev = 0 /\ member[v][j].keys = {}
    BY <1>2, NothingTypes
  <2>2. QED
    BY <1>3, <2>1 DEF Entry
<1>6. DraftSets
  BY <1>2 DEF DraftSets
<1>7. VouchedInv
  BY <1>2, <1>3 DEF VouchedInv, Vouched, Confirmed, Landed
<1>8. LateInv /\ ValidInv
  BY <1>2 DEF LateInv, Late, Carries, ValidInv
<1>9. QED
  BY <1>4, <1>5, <1>6, <1>7, <1>8 DEF Others

\* A step of one worker to a stage that vouches for nothing, or that goes on from one that does.
LEMMA NothingLands ==
    ASSUME TypeOK, Lease, StillRows, NEW w \in Worker, NEW phase,
           pc' = [pc EXCEPT ![w] = phase], phase \notin {"applied", "published"},
           \A x \in Worker \ {w} : plan'[x] = plan[x]
    PROVE  \A x \in Worker, j \in Job : Landed(x, j)' => Landed(x, j)
<1> SUFFICES ASSUME NEW x \in Worker, NEW j \in Job, Landed(x, j)' PROVE Landed(x, j)
  OBVIOUS
<1>1. x # w /\ pc'[x] = pc[x] /\ plan'[x] = plan[x]
  BY DEF TypeOK, Landed
<1>2. QED
  BY <1>1 DEF Landed, Carries, StillRows

\* Nothing is about to be published but what was.
LEMMA NothingIsValid ==
    ASSUME TypeOK, ValidInv, NEW w \in Worker, NEW phase \in Stages \ {"valid"}, pc' = [pc EXCEPT ![w] = phase],
           \A x \in Worker \ {w} : ver'[x] = ver[x]
    PROVE  \A x \in Worker : pc'[x] = "valid" => \E v \in Namespace : ver'[x] = v /\ \A j \in Job : Fits(v, j)
<1> SUFFICES ASSUME NEW x \in Worker, pc'[x] = "valid" PROVE \E v \in Namespace : ver'[x] = v /\ \A j \in Job : Fits(v, j)
  OBVIOUS
<1>1. x # w /\ pc[x] = "valid" /\ ver'[x] = ver[x] /\ ver[x] \in Namespace
  BY DEF TypeOK
<1>2. QED
  BY <1>1 DEF ValidInv

LEMMA QuietSteps ==
    ASSUME TypeOK, Lease, Rows, Plans, Others, StillRows, PlansFollow, NEW w \in Worker, NEW phase \in Stages,
           pc[w] # phase, pc' = [pc EXCEPT ![w] = phase], phase \notin {"applied", "published"},
           \A x \in Worker \ {w} : plan'[x] = plan[x] /\ ver'[x] = ver[x],
           UNCHANGED <<now, active, kept, member, index, fset, until>>,
           phase = "valid" => \E v \in Namespace : ver'[w] = v /\ Synced(v)
    PROVE  Others'
<1>1. \A x \in Worker, j \in Job : Landed(x, j)' => Landed(x, j)
  BY NothingLands
<1>2. \A x \in Worker : pc'[x] = "valid" => \E v \in Namespace : ver'[x] = v /\ \A j \in Job : Fits(v, j)
  <2>1. CASE phase # "valid"
    BY <2>1, NothingIsValid DEF Others
  <2>2. CASE phase = "valid"
    <3> SUFFICES ASSUME NEW x \in Worker, pc'[x] = "valid" PROVE \E v \in Namespace : ver'[x] = v /\ \A j \in Job : Fits(v, j)
      OBVIOUS
    <3>1. CASE x = w
      BY <2>2, <3>1, SyncedFits
    <3>2. CASE x # w
      <4>1. pc[x] = "valid" /\ ver'[x] = ver[x] /\ ver[x] \in Namespace
        BY <3>2 DEF TypeOK
      <4>2. QED
        BY <4>1 DEF Others, ValidInv
    <3>3. QED
      BY <3>1, <3>2
  <2>3. QED
    BY <2>1, <2>2
<1>3. QED
  BY <1>1, <1>2, QuietKeeps

LEMMA OthersStep ==
    ASSUME TypeOK, Lease, Rows, Plans, Others, [Next]_vars
    PROVE  Rows' /\ Plans' /\ Others'
<1>1. CASE \E w \in Worker : \E new, other : Commits(w, new, other)
  BY <1>1, CommitKeeps
<1>2. CASE StillRows /\ PlansFollow
  <2> USE <1>2
  <2>1. Rows' /\ Plans'
    BY StillRowsKeep
  <2>2. CASE UNCHANGED vars
    <3>1. UNCHANGED <<now, active, kept, member, index, fset, until, pc, plan, ver, row>>
      BY <2>2 DEF vars, catalog, projection, entries, local
    <3>2. \A x \in Worker, j \in Job : Landed(x, j)' => Landed(x, j)
      BY <3>1 DEF Landed, Carries
    <3>3. \A x \in Worker : pc'[x] = "valid" => \E v \in Namespace : ver'[x] = v /\ \A j \in Job : Fits(v, j)
      BY <3>1 DEF Others, ValidInv, TypeOK
    <3>4. Others'
      BY <3>1, <3>2, <3>3, QuietKeeps
    <3>5. QED
      BY <2>1, <3>4
  <2>3. CASE Tick
    BY <2>1, <2>3, TickKeeps
  <2>4. ASSUME NEW w \in Worker, Step(w) PROVE Others'
    <3>1. ASSUME NEW o \in SharedOp \cup ExclusiveOp, Begin(w, o) PROVE Others'
      <4>1. /\ pc[w] = "idle" /\ pc' = [pc EXCEPT ![w] = "ready"] /\ UNCHANGED <<plan, ver>>
            /\ UNCHANGED <<now, active, kept, member, index, fset, until>>
        BY <3>1 DEF Begin, Go, projection, entries
      <4>2. QED
        BY <4>1, QuietSteps DEF Stages
    <3>2. CASE End(w)
      <4>1. /\ pc[w] # "idle" /\ pc' = [pc EXCEPT ![w] = "idle"] /\ \A x \in Worker \ {w} : plan'[x] = plan[x] /\ ver'[x] = ver[x]
            /\ UNCHANGED <<now, active, kept, member, index, fset, until>>
        BY <3>2 DEF End, Resume, Go, Carry, projection, entries, TypeOK, Lease
      <4>2. QED
        BY <4>1, QuietSteps DEF Stages
    <3>3. CASE ReadExpired(w) \/ ReadActive(w)
      <4>1. PICK phase \in {"committed", "read"} : pc' = [pc EXCEPT ![w] = phase]
        BY <3>3 DEF ReadExpired, ReadActive, Go
      <4>2. /\ pc[w] = "ready" /\ \A x \in Worker \ {w} : plan'[x] = plan[x] /\ ver'[x] = ver[x]
            /\ UNCHANGED <<now, active, kept, member, index, fset, until>>
        BY <3>3 DEF ReadExpired, ReadActive, Carry, projection, entries, TypeOK, Lease
      <4>3. QED
        BY <4>1, <4>2, QuietSteps DEF Stages
    <3>4. CASE Save(w) \/ Deactivate(w) \/ Reclassify(w)
      <4>1. /\ pc[w] \in {"ready", "read"} /\ pc' = [pc EXCEPT ![w] = "committed"]
            /\ \A x \in Worker \ {w} : plan'[x] = plan[x] /\ ver'[x] = ver[x]
            /\ UNCHANGED <<now, active, kept, member, index, fset, until>>
        BY <3>4 DEF Save, Deactivate, Reclassify, Commit, Carry, Go, projection, entries, TypeOK, Lease
      <4>2. QED
        BY <4>1, QuietSteps DEF Stages
    <3>5. CASE ReadVersion(w)
      <4>1. /\ pc[w] = "committed" /\ pc' = [pc EXCEPT ![w] = "versioned"]
            /\ \A x \in Worker \ {w} : plan'[x] = plan[x] /\ ver'[x] = ver[x]
            /\ UNCHANGED <<now, active, kept, member, index, fset, until>>
        BY <3>5 DEF ReadVersion, Go, projection, entries, TypeOK
      <4>2. QED
        BY <4>1, QuietSteps DEF Stages
    <3>6. CASE Apply(w) \/ ApplyUnanswered(w)
      BY <3>6, ApplyKeeps
    <3>7. CASE Mark(w) \/ MarkPublished(w)
      <4>1. /\ pc[w] \in {"applied", "published"} /\ pc' = [pc EXCEPT ![w] = "ready"]
            /\ \A x \in Worker \ {w} : plan'[x] = plan[x] /\ ver'[x] = ver[x]
            /\ UNCHANGED <<now, active, kept, member, index, fset, until>>
        BY <3>7 DEF Mark, MarkPublished, Resume, Go, Carry, projection, entries, TypeOK, Lease
      <4>2. QED
        BY <4>1, QuietSteps DEF Stages
    <3>8. CASE StartRebuild(w)
      <4>1. /\ pc[w] = "ready" /\ pc' = [pc EXCEPT ![w] = "drafting"]
            /\ \A x \in Worker \ {w} : plan'[x] = plan[x] /\ ver'[x] = ver[x]
            /\ UNCHANGED <<now, active, kept, member, index, fset, until>>
        BY <3>8 DEF StartRebuild, Go, entries, TypeOK
      <4>2. QED
        BY <4>1, QuietSteps DEF Stages
    <3>9. CASE Draft(w)
      BY <3>9, DraftKeeps
    <3>10. CASE Validate(w)
      <4>1. /\ pc[w] = "drafting" /\ pc' = [pc EXCEPT ![w] = "valid"] /\ UNCHANGED <<plan, ver>>
            /\ UNCHANGED <<now, active, kept, member, index, fset, until>> /\ Synced(ver[w])
        BY <3>10 DEF Validate, Go, projection, entries
      <4>2. \E v \in Namespace : ver'[w] = v /\ Synced(v)
        BY <4>1 DEF TypeOK
      <4>3. QED
        BY <4>1, <4>2, QuietSteps DEF Stages
    <3>11. CASE StartRollback(w)
      <4>1. PICK v \in made : Synced(v) /\ ver' = [ver EXCEPT ![w] = v]
        BY <3>11 DEF StartRollback
      <4>2. /\ pc[w] = "ready" /\ pc' = [pc EXCEPT ![w] = "valid"] /\ UNCHANGED plan
            /\ UNCHANGED <<now, active, kept, member, index, fset, until>>
        BY <3>11 DEF StartRollback, Go, projection, entries
      <4>3. v \in Namespace /\ ver'[w] = v /\ \A x \in Worker \ {w} : plan'[x] = plan[x] /\ ver'[x] = ver[x]
        BY <4>1, <4>2 DEF TypeOK
      <4>4. QED
        BY <4>1, <4>2, <4>3, QuietSteps DEF Stages
    <3>12. CASE Publish(w)
      BY <3>12, PublishKeeps
    <3>13. QED
      BY <2>4, <3>1, <3>2, <3>3, <3>4, <3>5, <3>6, <3>7, <3>8, <3>9, <3>10, <3>11, <3>12 DEF Step
  <2>5. QED
    BY <2>1, <2>2, <2>3, <2>4 DEF Next
<1>3. QED
  BY <1>1, <1>2, Effects

LEMMA Inductive ==
    /\ Init => IInv
    /\ IInv /\ [Next]_vars => IInv'
<1>1. Init => IInv
  BY TypeInit, LeaseInit, OthersInit DEF IInv, Others
<1>2. ASSUME IInv, [Next]_vars PROVE IInv'
  <2>1. TypeOK /\ Lease /\ Rows /\ Plans /\ Others
    BY <1>2 DEF IInv, Others
  <2>2. TypeOK' /\ Lease' /\ Rows' /\ Plans' /\ Others'
    BY <1>2, <2>1, TypeStep, LeaseStep, OthersStep
  <2>3. QED
    BY <2>2 DEF IInv, Others
<1>3. QED
  BY <1>1, <1>2

LEMMA Invariance == Spec => []IInv
BY Inductive, PTL DEF Spec
-----------------------------------------------------------------------------
\* What searches see of a step.

\* What a search may show is never ahead of the row.
LEMMA ShownFacts ==
    ASSUME IInv, NEW j \in Job
    PROVE  /\ active \in Namespace /\ Shown(j) \in Nat /\ Shown(j) <= member[active][j].rev
           /\ member[active][j].rev <= row[j].rev /\ row[j].rev \in Nat /\ member[active][j].rev \in Nat
<1>1. TypeOK /\ active \in Namespace /\ Entry(active, j)
  BY DEF IInv, TypeOK, Entries
<1>2. member[active][j].rev \in Nat /\ row[j].rev \in Nat
  BY <1>1, EntryTypes, RowTypes
<1>3. QED
  BY <1>1, <1>2 DEF Entry, Shown

\* The script on the active namespace.
LEMMA ApplyFacts ==
    ASSUME IInv, NEW w \in Worker, Apply(w) \/ ApplyUnanswered(w)
    PROVE  /\ ApplyScript(active, plan[w], FALSE) /\ UNCHANGED <<now, row>> /\ active' = active
           /\ DOMAIN plan[w] \subseteq Job /\ \A j \in DOMAIN plan[w] : plan[w][j] \in Committed
<1>1. TypeOK /\ ApplyScript(active, plan[w], FALSE) /\ UNCHANGED <<now, row>>
  BY DEF IInv, Apply, ApplyUnanswered, ApplyActive, catalog
<1>2. DOMAIN plan[w] \subseteq Job /\ \A j \in DOMAIN plan[w] : plan[w][j] \in Committed
  BY <1>1 DEF TypeOK
<1>3. active' = active
  BY <1>1 DEF ApplyScript
<1>4. QED
  BY <1>1, <1>2, <1>3

\* What is published shows every job that lives at its row's revision, and no other.
LEMMA PublishFacts ==
    ASSUME IInv, NEW w \in Worker, Publish(w), NEW j \in Job
    PROVE  /\ Alive(j) => Shown(j)' = row[j].rev
           /\ ~Alive(j) => Shown(j)' = 0
<1>1. TypeOK /\ pc[w] = "valid" /\ active' = ver[w] /\ UNCHANGED <<now, member, index>>
  BY DEF IInv, Publish, entries
<1>2. PICK v \in Namespace : v = ver[w]
  BY <1>1 DEF TypeOK
<1>3. Fits(v, j) /\ Entry(v, j)
  BY <1>1, <1>2 DEF IInv, ValidInv, Entries
<1>4. index[v][j] \in Nat /\ now \in Nat
  BY <1>1, EntryTypes, TimeFacts DEF TypeOK
<1>5. CASE Alive(j)
  <2>1. member[v][j].rev = row[j].rev /\ index[v][j] = row[j].exp /\ row[j].exp > now
    BY <1>3, <1>5 DEF Fits, Entry, Alive, AliveAt
  <2>2. QED
    BY <1>1, <1>2, <1>5, <2>1 DEF Shown
<1>6. CASE ~Alive(j)
  <2>1. ~(index[v][j] > now)
    BY <1>3, <1>4, <1>6 DEF Fits
  <2>2. QED
    BY <1>1, <1>2, <1>6, <2>1 DEF Shown
<1>7. QED
  BY <1>5, <1>6

\* The steps that touch the active namespace.
ActiveSame ==
    /\ UNCHANGED <<now, active>>
    /\ member'[active] = member[active] /\ index'[active] = index[active] /\ fset'[active] = fset[active]

LEMMA Moves ==
    ASSUME IInv, [Next]_vars
    PROVE  \/ Tick \/ ActiveSame
           \/ \E w \in Worker : Apply(w) \/ ApplyUnanswered(w) \/ Publish(w)
<1>1. TypeOK /\ Lease
  BY DEF IInv
<1>2. CASE UNCHANGED vars
  BY <1>2 DEF vars, projection, entries, ActiveSame
<1>3. ASSUME NEW w \in Worker, Draft(w) PROVE ActiveSame
  <2>1. PICK j \in Job : ApplyScript(ver[w], [k \in {j} |-> Carried(k)], TRUE)
    BY <1>3 DEF Draft
  <2>2. PICK p : p = [k \in {j} |-> Carried(k)]
    OBVIOUS
  <2>3. PICK v \in Namespace : v = ver[w]
    BY <1>1 DEF TypeOK
  <2>4. ApplyScript(v, p, TRUE)
    BY <2>1, <2>2, <2>3
  <2>5. active \in Namespace /\ active # v
    BY <1>1, <1>3, <2>3 DEF Draft, Lease, TypeOK
  <2>6. UNCHANGED <<now, active>>
    BY <1>3, <2>4 DEF Draft, ApplyScript
  <2>7. QED
    BY <1>1, <2>4, <2>5, <2>6, ScriptElsewhere DEF ActiveSame
<1>4. ASSUME NEW w \in Worker, Step(w) PROVE ActiveSame \/ Apply(w) \/ ApplyUnanswered(w) \/ Publish(w)
  <2>1. \/ UNCHANGED <<now, active, entries>>
        \/ Draft(w) \/ Apply(w) \/ ApplyUnanswered(w) \/ Publish(w)
    BY <1>4 DEF Step, Begin, End, Save, Deactivate, ReadExpired, ReadActive, Reclassify, ReadVersion, Mark,
                StartRebuild, Validate, StartRollback, MarkPublished, Commit, projection
  <2>2. QED
    BY <1>3, <2>1 DEF ActiveSame, entries
<1>5. QED
  BY <1>2, <1>4 DEF Next

\* A write only raises the revision of what it writes.
LEMMA ApplyRaises ==
    ASSUME IInv, NEW w \in Worker, Apply(w) \/ ApplyUnanswered(w), NEW j \in Job
    PROVE  Shown(j)' > 0 => Shown(j)' >= Shown(j)
<1>1. PICK v \in Namespace : v = active
  BY DEF IInv, TypeOK
<1>2. PICK p : p = plan[w]
  OBVIOUS
<1>3. /\ TypeOK /\ ApplyScript(v, p, FALSE) /\ UNCHANGED now /\ active' = v
      /\ DOMAIN p \subseteq Job /\ \A k \in DOMAIN p : p[k] \in Committed
  BY <1>1, <1>2, ApplyFacts DEF IInv
<1>4. Shown(j) \in Nat /\ Shown(j) <= member[v][j].rev /\ member[v][j].rev \in Nat
  BY <1>1, ShownFacts
<1>5. CASE j \in Hits(v, p, FALSE)
  <2>1. j \in DOMAIN p /\ Applies(v, j, p[j], FALSE) /\ p[j] \in Committed
    BY <1>3, <1>5 DEF Hits
  <2>2. ~(member[v][j].rev > p[j].rev) /\ p[j].rev \in Nat
    BY <1>3, <2>1, ScriptGuard, CommittedFacts
  <2>3. member'[v][j].rev = p[j].rev
    BY <1>3, <1>5, ScriptHit
  <2>4. Shown(j)' = 0 \/ Shown(j)' = p[j].rev
    BY <1>3, <2>3 DEF Shown
  <2>5. QED
    BY <1>4, <2>2, <2>4
<1>6. CASE j \notin Hits(v, p, FALSE)
  <2>1. member'[v][j] = member[v][j] /\ index'[v][j] = index[v][j]
    BY <1>3, <1>6, ScriptJob
  <2>2. Shown(j)' = Shown(j)
    BY <1>1, <1>3, <2>1 DEF Shown
  <2>3. QED
    BY <1>4, <2>2
<1>7. QED
  BY <1>5, <1>6

\* Time only takes away.
LEMMA TickShows ==
    ASSUME IInv, Tick, NEW j \in Job
    PROVE  Shown(j)' = 0 \/ Shown(j)' = Shown(j)
<1>1. TypeOK /\ active \in Namespace /\ active' = active /\ active \in kept /\ now' = now + 1 /\ now \in Nat
  BY TimeFacts DEF IInv, TypeOK, Tick
<1>2. index'[active][j] = index[active][j] /\ index[active][j] \in Nat
  BY <1>1, EntryTypes DEF Tick
<1>3. member'[active][j].rev = 0 \/ member'[active][j] = member[active][j]
  BY <1>1, NothingTypes DEF Tick
<1>4. index[active][j] > now + 1 => index[active][j] > now
  BY <1>1, <1>2
<1>5. QED
  BY <1>1, <1>2, <1>3, <1>4 DEF Shown

LEMMA SameShown ==
    ASSUME ActiveSame, NEW j \in Job
    PROVE  Shown(j)' = Shown(j)
BY DEF ActiveSame, Shown

-----------------------------------------------------------------------------
\* The variables keep their types.
THEOREM TypeCorrect == Spec => []TypeOK
BY Invariance, PTL DEF IInv

\* Nothing is projected, in any namespace, that PostgreSQL has not committed,
\* and what is projected at a row's revision is what that row says: whatever
\* Processor.Build, Apply, maintenance, rebuilds and crashes do in between.
THEOREM CatalogComesFirst == Spec => []OnlyCommitted
<1>1. IInv => OnlyCommitted
  BY DEF IInv, Entries, Entry, OnlyCommitted
<1>2. QED
  BY <1>1, Invariance, PTL

\* A row that indexed_revision confirms is shown, complete, while it is active,
\* and not shown once it is not: Store.MarkIndexed does not lie.
THEOREM MarksAreTrue == Spec => []ConfirmedIsShown
<1>1. ASSUME IInv PROVE ConfirmedIsShown
  <2> SUFFICES ASSUME NEW j \in Job, Exists(j), row[j].indexed = row[j].rev
               PROVE  IF Alive(j) THEN Matches(active, j) ELSE Shown(j) = 0
    BY DEF ConfirmedIsShown
  <2>1. Settled(j)
    BY <1>1 DEF IInv, VouchedInv, Vouched, Confirmed
  <2>2. Entry(active, j)
    BY <1>1 DEF IInv, Entries, TypeOK
  <2>3. CASE Alive(j)
    BY <2>1, <2>2, <2>3 DEF Settled, Entry, Matches
  <2>4. CASE ~Alive(j)
    BY <2>1, <2>4 DEF Settled
  <2>5. QED
    BY <2>3, <2>4
<1>2. QED
  BY <1>1, Invariance, PTL

\* Reclassify writes over the payload it read and no newer one: its exclusive
\* lease keeps every collection out between the read and the write.
THEOREM NothingNewerIsOverwritten == Spec => []ReclassifiesCurrent
<1>1. ASSUME IInv, NEW w \in Worker, pc[w] = "read", NEW j \in DOMAIN plan[w] PROVE plan[w][j].rev = row[j].rev
  <2>1. op[w] \in ExclusiveOp
    BY <1>1 DEF IInv, Lease, ExclusiveOp
  <2>2. QED
    BY <1>1, <2>1 DEF IInv, Plans
<1>2. IInv => ReclassifiesCurrent
  BY <1>1 DEF ReclassifiesCurrent
<1>3. QED
  BY <1>2, Invariance, PTL

\* A job that searches show never goes back to an older revision: the script
\* gives way to newer entries, and a published namespace fits the catalog.
THEOREM RevisionsOnlyRise == Spec => SearchNeverGoesBack
<1>1. ASSUME IInv, [Next]_vars, NEW j \in Job PROVE Shown(j)' > 0 => Shown(j)' >= Shown(j)
  <2>1. Shown(j) \in Nat
    BY <1>1, ShownFacts
  <2>2. CASE Tick
    BY <1>1, <2>1, <2>2, TickShows
  <2>3. CASE ActiveSame
    BY <2>1, <2>3, SameShown
  <2>4. ASSUME NEW w \in Worker, Apply(w) \/ ApplyUnanswered(w) PROVE Shown(j)' > 0 => Shown(j)' >= Shown(j)
    BY <1>1, <2>4, ApplyRaises
  <2>5. ASSUME NEW w \in Worker, Publish(w) PROVE Shown(j)' > 0 => Shown(j)' >= Shown(j)
    BY <1>1, <2>5, PublishFacts, ShownFacts
  <2>6. QED
    BY <1>1, <2>2, <2>3, <2>4, <2>5, Moves
<1>2. IInv /\ [Next]_vars => [\A j \in Job : Shown(j)' > 0 => Shown(j)' >= Shown(j)]_vars
  BY <1>1
<1>3. QED
  BY <1>2, Invariance, PTL DEF Spec, SearchNeverGoesBack

\* No publication loses an active row that the namespace before it showed:
\* Validate and Rollback compare the namespace with the catalog under the
\* exclusive lease, and nothing is written until it is published.
THEOREM NothingIsLost == Spec => PublishLosesNothing
<1>1. ASSUME IInv, [Next]_vars, active' # active, NEW j \in Job, Alive(j) PROVE Shown(j)' >= Shown(j)
  <2>1. ~Tick /\ ~ActiveSame
    BY <1>1 DEF Tick, ActiveSame
  <2>2. \A w \in Worker : ~Apply(w) /\ ~ApplyUnanswered(w)
    BY <1>1, ApplyFacts
  <2>3. PICK w \in Worker : Publish(w)
    BY <1>1, <2>1, <2>2, Moves
  <2>4. QED
    BY <1>1, <2>3, PublishFacts, ShownFacts
<1>2. IInv /\ [Next]_vars => [active' # active => \A j \in Job : Alive(j) => Shown(j)' >= Shown(j)]_vars
  BY <1>1
<1>3. QED
  BY <1>2, Invariance, PTL DEF Spec, PublishLosesNothing

LEMMA Flips ==
    ASSUME NEW b \in BOOLEAN
    PROVE  (~b) # b
BY Zenon

\* Whatever a write changes of what searches show or find, the generation that
\* the backend keys its pages by changes with it.
THEOREM GenerationMoves == Spec => ChangesAreAnnounced
<1>1. ASSUME IInv, [Next]_vars, now' = now, gen' = gen, NEW j \in Job PROVE Seen(j)' = Seen(j)
  <2>0. gen \in BOOLEAN
    BY <1>1 DEF IInv, TypeOK
  <2>1. ~Tick
    BY <1>1, TimeFacts DEF Tick, IInv, TypeOK
  <2>2. CASE ActiveSame
    BY <2>2, SameShown DEF ActiveSame, Seen
  <2>3. ASSUME NEW w \in Worker, Publish(w) PROVE FALSE
    <3>1. gen' = ~gen
      BY <2>3 DEF Publish
    <3>2. QED
      BY <1>1, <2>0, <3>1, Flips, Zenon
  <2>4. ASSUME NEW w \in Worker, Apply(w) \/ ApplyUnanswered(w) PROVE Seen(j)' = Seen(j)
    <3>1. PICK v \in Namespace : v = active
      BY <1>1 DEF IInv, TypeOK
    <3>2. PICK p : p = plan[w]
      OBVIOUS
    <3>3. /\ TypeOK /\ ApplyScript(v, p, FALSE) /\ active' = v /\ DOMAIN p \subseteq Job
      BY <1>1, <2>4, <3>1, <3>2, ApplyFacts DEF IInv
    <3>4. gen' = IF Hits(v, p, FALSE) = {} THEN gen ELSE ~gen
      BY <3>3 DEF ApplyScript, Hits
    <3>5. j \notin Hits(v, p, FALSE)
      <4>1. Hits(v, p, FALSE) # {} => gen' = ~gen
        BY <3>4
      <4>2. Hits(v, p, FALSE) = {}
        BY <1>1, <2>0, <4>1, Flips, Zenon
      <4>3. QED
        BY <4>2
    <3>6. member'[v][j] = member[v][j] /\ index'[v][j] = index[v][j] /\ \A f \in Family : j \in fset'[v][f] <=> j \in fset[v][f]
      BY <3>3, <3>5, ScriptJob
    <3>7. Shown(j)' = Shown(j)
      BY <1>1, <3>1, <3>3, <3>6 DEF Shown
    <3>8. {f \in Family : j \in fset'[active'][f]} = {f \in Family : j \in fset[active][f]}
      BY <3>1, <3>3, <3>6
    <3>9. QED
      BY <3>7, <3>8 DEF Seen
  <2>5. QED
    BY <1>1, <2>1, <2>2, <2>3, <2>4, Moves
<1>2. IInv /\ [Next]_vars => [now' = now /\ (\E j \in Job : Seen(j)' # Seen(j)) => gen' # gen]_vars
  BY <1>1
<1>3. QED
  BY <1>2, Invariance, PTL DEF Spec, ChangesAreAnnounced

-----------------------------------------------------------------------------
(* Induction, and what it gives for folds. *)

\* A nonempty set of numbers has a least one.
LEMMA LeastOfNat ==
    ASSUME NEW T, T \subseteq Nat, T # {}
    PROVE  \E n \in T : \A m \in T : n <= m
<1> DEFINE U == {1..n : n \in T}
<1>1. U \subseteq FiniteSubsetsOf(Nat) /\ U # {}
  <2>1. ASSUME NEW n \in T PROVE 1..n \in FiniteSubsetsOf(Nat)
    BY FS_Interval DEF FiniteSubsetsOf
  <2> QED
    BY <2>1
<1> HIDE DEF U
<1>2. PICK x \in U : \A y \in U : ~(<<y, x>> \in StrictSubsetOrdering(Nat))
  BY <1>1, FS_StrictSubsetOrderingWellFounded, WFMin
<1>3. PICK n \in T : x = 1..n
  BY <1>2 DEF U
<1>4. ASSUME NEW m \in T, m < n PROVE FALSE
  <2>1. 1..m \in U /\ 1..m \in SUBSET Nat /\ 1..n \in SUBSET Nat
    BY DEF U
  <2>2. 1..m \subseteq 1..n /\ n \in 1..n /\ n \notin 1..m
    BY <1>4
  <2> QED
    BY <1>2, <1>3, <2>1, <2>2 DEF StrictSubsetOrdering
<1> QED
  BY <1>4

\* What holds of 0, and of n + 1 when it holds of n, holds of the numbers up to any n.
LEMMA UpTo ==
    ASSUME NEW n \in Nat, NEW T, 0 \in T, \A k \in 0..n : k \in T /\ k # n => k + 1 \in T
    PROVE  0..n \subseteq T
<1> DEFINE U == (0..n) \ T
<1>1. SUFFICES ASSUME U # {} PROVE FALSE
  OBVIOUS
<1>2. PICK k \in U : \A m \in U : k <= m
  <2>1. U \subseteq Nat
    OBVIOUS
  <2> HIDE DEF U
  <2>2. QED
    BY <1>1, <2>1, LeastOfNat
<1>3. k \in 1..n /\ k - 1 \in 0..n /\ k - 1 \notin U
  BY <1>2
<1>4. k - 1 \in T /\ k - 1 # n
  BY <1>3
<1>5. k - 1 + 1 \in T
  BY <1>3, <1>4
<1>6. QED
  BY <1>2, <1>3, <1>5

\* A nonempty finite set of numbers has a greatest one.
LEMMA GreatestOfFinite ==
    ASSUME NEW T, T \subseteq Nat, T # {}, IsFiniteSet(T)
    PROVE  \E n \in T : \A m \in T : n >= m
<1> DEFINE U == {S \in FiniteSubsetsOf(Nat) : S # {} /\ ~ \E n \in S : \A m \in S : n >= m}
<1>1. SUFFICES ASSUME U # {} PROVE FALSE
  BY DEF FiniteSubsetsOf
<1>2. PICK S \in U : \A R \in U : ~(<<R, S>> \in StrictSubsetOrdering(Nat))
  <2>1. U \subseteq FiniteSubsetsOf(Nat)
    OBVIOUS
  <2> HIDE DEF U
  <2>2. QED
    BY <1>1, <2>1, FS_StrictSubsetOrderingWellFounded, WFMin
<1>3. S \subseteq Nat /\ IsFiniteSet(S) /\ S # {} /\ ~ \E n \in S : \A m \in S : n >= m
  BY <1>2 DEF FiniteSubsetsOf
<1>4. PICK x \in S : TRUE
  BY <1>3
<1> DEFINE R == S \ {x}
<1>5. R \subseteq S /\ R # S /\ R \subseteq Nat
  BY <1>3, <1>4
<1>6. R \in FiniteSubsetsOf(Nat) /\ <<R, S>> \in StrictSubsetOrdering(Nat)
  <2>1. IsFiniteSet(R)
    BY <1>3, <1>5, FS_Subset
  <2>2. QED
    BY <1>3, <1>5, <2>1 DEF FiniteSubsetsOf, StrictSubsetOrdering
<1>7. R \notin U
  BY <1>2, <1>6
<1>8. CASE R = {}
  BY <1>3, <1>4, <1>8
<1>9. CASE R # {}
  <2>1. PICK n \in R : \A m \in R : n >= m
    BY <1>6, <1>7, <1>9
  <2>2. \A m \in S : (IF x >= n THEN x ELSE n) >= m
    BY <1>3, <1>4, <2>1
  <2>3. QED
    BY <1>3, <1>4, <2>1, <2>2
<1>10. QED
  BY <1>8, <1>9

\* A recursion over the sets of numbers up to n, from the greatest down, has a solution.
Iterates(g, X, base, n, step) ==
    /\ \A s \in SUBSET (1..n) : g[s] \in X
    /\ g = [s \in SUBSET (1..n) |-> IF s = {} THEN base ELSE step[<<Stage!Max(s), g[s \ {Stage!Max(s)}]>>]]

LEMMA FoldExists ==
    ASSUME NEW X, NEW base \in X, NEW n \in Nat, NEW step \in [(1..n) \X X -> X]
    PROVE  \E g : Iterates(g, X, base, n, step)
<1> DEFINE Solves(g, k) ==
             /\ \A s \in SUBSET (1..k) : g[s] \in X
             /\ g[{}] = base
             /\ \A s \in SUBSET (1..k) : s # {} => g[s] = step[<<Stage!Max(s), g[s \ {Stage!Max(s)}]>>]
           T == {k \in 0..n : \E g : Solves(g, k)}
<1>1. 0 \in T
  <2>1. PICK g : g = [s \in {{}} |-> base]
    OBVIOUS
  <2>2. SUBSET (1..0) = {{}} /\ g[{}] = base
    BY <2>1
  <2>3. Solves(g, 0)
    BY <2>2
  <2> HIDE DEF Solves
  <2>4. \E f : Solves(f, 0)
    BY <2>3
  <2>5. QED
    BY <2>4
<1>2. ASSUME NEW k \in 0..n, k \in T, k # n PROVE k + 1 \in T
  <2>1. PICK g : Solves(g, k)
    BY <1>2
  <2>2. k + 1 \in 1..n /\ k \in Nat
    BY <1>2
  <2>3. ASSUME NEW s \in SUBSET (1..(k + 1)), s # {}
        PROVE  /\ Stage!Max(s) \in s /\ \A m \in s : Stage!Max(s) >= m
               /\ k + 1 \in s => Stage!Max(s) = k + 1 /\ s \ {k + 1} \in SUBSET (1..k)
               /\ k + 1 \notin s => s \in SUBSET (1..k)
    <3>1. s \subseteq Nat /\ IsFiniteSet(s)
      <4>1. 1 \in Int /\ k + 1 \in Int
        BY <2>2
      <4>2. IsFiniteSet(1..(k + 1))
        BY ONLY <4>1, FS_Interval
      <4>3. IsFiniteSet(s)
        BY ONLY <4>2, <2>3, FS_Subset
      <4>4. QED
        BY <2>3, <4>3
    <3>2. PICK x \in s : \A m \in s : x >= m
      BY <2>3, <3>1, GreatestOfFinite
    <3>3. Stage!Max(s) \in s /\ \A m \in s : Stage!Max(s) >= m
      BY <3>2 DEF Stage!Max
    <3>4. s \ {k + 1} \in SUBSET (1..k)
      BY <2>2, <2>3
    <3>5. k + 1 \in s => Stage!Max(s) = k + 1
      <4>1. Stage!Max(s) \in 1..(k + 1)
        BY <3>3, <2>3
      <4>2. QED
        BY <3>3, <4>1, <2>2
    <3>6. QED
      BY <3>3, <3>4, <3>5
  <2> DEFINE h == [s \in SUBSET (1..(k + 1)) |-> IF k + 1 \in s THEN step[<<k + 1, g[s \ {k + 1}]>>] ELSE g[s]]
  <2>4. \A s \in SUBSET (1..k) : s \in SUBSET (1..(k + 1)) /\ k + 1 \notin s /\ h[s] = g[s]
    <3>1. 1..k \subseteq 1..(k + 1) /\ k + 1 \notin 1..k
      BY <2>2
    <3>2. QED
      BY <3>1
  <2>5. ASSUME NEW s \in SUBSET (1..(k + 1))
        PROVE  h[s] \in X /\ (s # {} => h[s] = step[<<Stage!Max(s), h[s \ {Stage!Max(s)}]>>])
    <3>1. CASE k + 1 \in s
      <4>1. s # {} /\ Stage!Max(s) = k + 1 /\ s \ {k + 1} \in SUBSET (1..k)
        BY <2>3, <3>1
      <4>2. h[s] = step[<<k + 1, g[s \ {k + 1}]>>] /\ g[s \ {k + 1}] \in X /\ h[s \ {k + 1}] = g[s \ {k + 1}]
        BY <2>1, <2>4, <3>1, <4>1
      <4>3. <<k + 1, g[s \ {k + 1}]>> \in (1..n) \X X
        BY <2>2, <4>2
      <4> HIDE DEF h
      <4>4. QED
        BY <4>1, <4>2, <4>3
    <3>2. CASE k + 1 \notin s
      <4>1. s \in SUBSET (1..k)
        BY <2>2, <3>2
      <4>2. h[s] = g[s] /\ g[s] \in X
        BY <2>1, <2>4, <4>1
      <4>3. ASSUME s # {} PROVE h[s] = step[<<Stage!Max(s), h[s \ {Stage!Max(s)}]>>]
        <5>1. g[s] = step[<<Stage!Max(s), g[s \ {Stage!Max(s)}]>>]
          BY <2>1, <4>1, <4>3
        <5>2. h[s \ {Stage!Max(s)}] = g[s \ {Stage!Max(s)}]
          BY <2>4, <4>1
        <5> HIDE DEF h
        <5>3. QED
          BY <4>2, <5>1, <5>2
      <4>4. QED
        BY <4>2, <4>3
    <3>3. QED
      BY <3>1, <3>2
  <2>6. h[{}] = base
    BY <2>1, <2>4
  <2> HIDE DEF h
  <2>7. Solves(h, k + 1)
    BY <2>5, <2>6
  <2> HIDE DEF Solves
  <2>8. \E f : Solves(f, k + 1)
    BY <2>7
  <2>9. k + 1 \in 0..n
    BY <2>2
  <2>10. QED
    BY <2>8, <2>9
<1>3. n \in T
  <2> HIDE DEF T
  <2>1. 0..n \subseteq T
    BY <1>1, <1>2, UpTo
  <2>2. QED
    BY <2>1
<1>4. PICK f : Solves(f, n)
  BY <1>3
<1> DEFINE g == [s \in SUBSET (1..n) |-> f[s]]
<1>5. \A s \in SUBSET (1..n) : g[s] = f[s] /\ s \ {Stage!Max(s)} \in SUBSET (1..n)
  OBVIOUS
<1>6. \A s \in SUBSET (1..n) : g[s] \in X /\ g[s] = IF s = {} THEN base ELSE step[<<Stage!Max(s), g[s \ {Stage!Max(s)}]>>]
  <2> HIDE DEF g
  <2>1. QED
    BY <1>4, <1>5
<1>7. g = [s \in SUBSET (1..n) |-> g[s]]
  OBVIOUS
<1> HIDE DEF g
<1>8. [s \in SUBSET (1..n) |-> g[s]] = [s \in SUBSET (1..n) |-> IF s = {} THEN base ELSE step[<<Stage!Max(s), g[s \ {Stage!Max(s)}]>>]]
  BY <1>6
<1>9. Iterates(g, X, base, n, step)
  BY <1>6, <1>7, <1>8 DEF Iterates
<1> QED
  BY <1>9
-----------------------------------------------------------------------------
(* Jobs and their identities. *)

LEMMA StageConstants ==
    /\ 0 \in Stage!Value /\ Stage!Value \subseteq Nat /\ Stage!NoId \notin Stage!Id
    /\ Copies # {} /\ Copies \subseteq Stage!Posting
    /\ ClassifyBatch \in Nat \ {0} /\ PersistBatch \in Nat \ {0} /\ IndexBatch \in Nat \ {0}
    /\ MaxReceived \in Nat
<1>1. Stage!ProcessStageAssumption
  BY MCAssumption
<1> QED
  BY <1>1 DEF Stage!ProcessStageAssumption, Stage!Value, Stage!NoId, Stage!Id

LEMMA StableIdType ==
    ASSUME NEW j \in Stage!Posting
    PROVE  /\ Stage!StableId(j) \in Stage!Id \cup {Stage!NoId}
           /\ Stage!StableId(j) # Stage!NoId <=> j.name # 0 \/ j.url # 0
<1>1. j.name \in Stage!Value /\ j.url \in Stage!Value /\ Stage!NoId \notin Stage!Id
  BY StageConstants DEF Stage!Posting
<1>2. CASE j.name # 0
  <2>1. Stage!StableId(j) = <<"name", j.name>>
    BY <1>2 DEF Stage!StableId
  <2>2. <<"name", j.name>> \in Stage!Id
    BY <1>1, <1>2 DEF Stage!Id
  <2> QED
    BY <1>1, <1>2, <2>1, <2>2
<1>3. CASE j.name = 0 /\ j.url # 0
  <2>1. Stage!StableId(j) = <<"url", j.url>>
    BY <1>3 DEF Stage!StableId
  <2>2. <<"url", j.url>> \in Stage!Id
    BY <1>1, <1>3 DEF Stage!Id
  <2> QED
    BY <1>1, <1>3, <2>1, <2>2
<1>4. CASE j.name = 0 /\ j.url = 0
  BY <1>4 DEF Stage!StableId
<1> QED
  BY <1>2, <1>3, <1>4

LEMMA GreaterOfTwo ==
    ASSUME NEW S, S \subseteq Nat, NEW x \in S, NEW y \in S
    PROVE  /\ Stage!Max({x, y}) \in S
           /\ Stage!Max({x, y}) = 0 <=> x = 0 /\ y = 0
<1>1. \E m \in {x, y} : \A n \in {x, y} : m >= n
  OBVIOUS
<1>2. Stage!Max({x, y}) \in {x, y} /\ \A n \in {x, y} : Stage!Max({x, y}) >= n
  BY <1>1 DEF Stage!Max
<1> QED
  BY <1>2

LEMMA MergeType ==
    ASSUME NEW a \in Stage!Posting, NEW b \in Stage!Posting
    PROVE  /\ Stage!Merge(a, b) \in Stage!Posting
           /\ Stage!StableId(a) # Stage!NoId => Stage!StableId(Stage!Merge(a, b)) # Stage!NoId
<1> DEFINE merged == Stage!Merge(a, b)
           name == Stage!Max({a.name, b.name})
           url == Stage!Max({a.url, b.url})
           text == Stage!Max({a.text, b.text})
           ext == IF a.ext # 0 THEN a.ext ELSE b.ext
<1>1. /\ a.name \in Stage!Value /\ b.name \in Stage!Value /\ a.url \in Stage!Value /\ b.url \in Stage!Value
      /\ a.text \in Nat /\ b.text \in Nat /\ a.scope \in {"unknown", "in", "out"}
      /\ ext \in Stage!Value
  BY DEF Stage!Posting
<1>2. name \in Stage!Value /\ (name = 0 <=> a.name = 0 /\ b.name = 0)
  BY ZenonT(60), <1>1, StageConstants, GreaterOfTwo
<1>3. url \in Stage!Value /\ (url = 0 <=> a.url = 0 /\ b.url = 0)
  BY ZenonT(60), <1>1, StageConstants, GreaterOfTwo
<1>4. text \in Nat
  BY <1>1, GreaterOfTwo
<1>5. merged = [ext |-> ext, name |-> name, url |-> url, text |-> text, scope |-> a.scope]
  BY DEF Stage!Merge
<1> HIDE DEF name, url, text, ext, merged
<1>6. merged \in Stage!Posting /\ merged.name = name /\ merged.url = url
  BY <1>1, <1>2, <1>3, <1>4, <1>5 DEF Stage!Posting
<1>7. Stage!StableId(a) # Stage!NoId => Stage!StableId(merged) # Stage!NoId
  BY <1>2, <1>3, <1>6, StableIdType
<1> QED
  BY <1>6, <1>7 DEF merged

LEMMA ClassifyType ==
    ASSUME NEW j \in Stage!Posting
    PROVE  /\ Stage!Classify(j) \in Stage!Posting
           /\ Stage!StableId(Stage!Classify(j)) = Stage!StableId(j)
BY DEF Stage!Classify, Stage!StableId, Stage!Posting

LEMMA MergeLateType ==
    ASSUME NEW old \in Stage!Posting, Stage!StableId(old) # Stage!NoId, NEW c \in Stage!Posting
    PROVE  /\ Stage!MergeLate(old, c) \in Stage!Posting
           /\ Stage!StableId(Stage!MergeLate(old, c)) \in Stage!Id
<1> DEFINE merged == Stage!Classify(Stage!Merge(old, c))
<1>1. merged \in Stage!Posting /\ Stage!StableId(merged) # Stage!NoId
  BY MergeType, ClassifyType
<1> HIDE DEF merged
<1> DEFINE same == [merged EXCEPT !.scope = old.scope]
<1>2. same \in Stage!Posting /\ same.name = merged.name /\ same.url = merged.url
  BY <1>1 DEF Stage!Posting
<1> HIDE DEF same
<1>3. Stage!StableId(same) # Stage!NoId
  BY <1>1, <1>2, StableIdType
<1>4. Stage!MergeLate(old, c) = merged \/ Stage!MergeLate(old, c) = same
  BY DEF Stage!MergeLate, merged, same
<1> QED
  BY <1>1, <1>2, <1>3, <1>4, StableIdType

\* What SaveBatch stores has an identity when what is stored, or what is new, has one.
LEMMA StoredJob ==
    ASSUME NEW old \in Stage!Doc, NEW j \in Stage!Posting, Stage!StableId(j) # Stage!NoId,
           old.rev > 0 => Stage!StableId(old.job) # Stage!NoId,
           NEW new, new = [rev |-> old.rev + 1,
                           job |-> [(IF old.rev = 0 THEN j ELSE Stage!MergeStored(old.job, j)) EXCEPT !.ext = 0]]
    PROVE  new \in Stage!Doc /\ new.rev = old.rev + 1 /\ Stage!StableId(new.job) # Stage!NoId
<1>1. old.rev \in Nat /\ old.job \in Stage!Posting
  BY DEF Stage!Doc
<1> DEFINE base == IF old.rev = 0 THEN j ELSE Stage!MergeStored(old.job, j)
<1>2. ASSUME old.rev # 0
      PROVE  /\ Stage!MergeStored(old.job, j) \in Stage!Posting
             /\ Stage!StableId(Stage!MergeStored(old.job, j)) # Stage!NoId
  <2> DEFINE job == Stage!MergeStored(old.job, j)
  <2>1. /\ job \in Stage!Posting /\ job.name = old.job.name
        /\ job.url = IF j.url # 0 THEN j.url ELSE old.job.url
    BY <1>1 DEF Stage!MergeStored, Stage!Posting
  <2> HIDE DEF job
  <2>2. Stage!StableId(old.job) # Stage!NoId
    BY <1>1, <1>2
  <2>3. Stage!StableId(job) # Stage!NoId
    BY <1>1, <2>1, <2>2, StableIdType
  <2> QED
    BY <2>1, <2>3 DEF job
<1>3. base \in Stage!Posting /\ Stage!StableId(base) # Stage!NoId
  BY <1>2
<1>4. new = [rev |-> old.rev + 1, job |-> [base EXCEPT !.ext = 0]]
  OBVIOUS
<1> HIDE DEF base
<1> DEFINE job == [base EXCEPT !.ext = 0]
<1>5. job \in Stage!Posting /\ job.name = base.name /\ job.url = base.url
  BY <1>3, StageConstants DEF Stage!Posting
<1>6. new = [rev |-> old.rev + 1, job |-> job]
  BY <1>4
<1> HIDE DEF job
<1>7. Stage!StableId(job) # Stage!NoId
  BY <1>3, <1>5, StableIdType
<1> QED
  BY <1>1, <1>5, <1>6, <1>7 DEF Stage!Doc
-----------------------------------------------------------------------------
(* The folds, one element after the other. *)

LEMMA GreatestIn ==
    ASSUME NEW n \in Nat, NEW s \in SUBSET (1..n), s # {}
    PROVE  Stage!Max(s) \in s /\ s \ {Stage!Max(s)} \in SUBSET (1..n) /\ \A m \in s : Stage!Max(s) >= m
<1>1. IsFiniteSet(s) /\ s \subseteq Nat
  <2>1. 1 \in Int /\ n \in Int
    OBVIOUS
  <2>2. IsFiniteSet(1..n)
    BY ONLY <2>1, FS_Interval
  <2>3. s \subseteq 1..n
    OBVIOUS
  <2>4. IsFiniteSet(s)
    BY ONLY <2>2, <2>3, FS_Subset
  <2> QED
    BY <2>4
<1>2. PICK x \in s : \A m \in s : x >= m
  BY <1>1, GreatestOfFinite
<1> QED
  BY <1>2 DEF Stage!Max

LEMMA GreatestUpTo ==
    ASSUME NEW k \in Nat, k # 0
    PROVE  1..k # {} /\ Stage!Max(1..k) = k /\ (1..k) \ {k} = 1..(k - 1)
<1>1. 1..k # {} /\ (1..k) \ {k} = 1..(k - 1) /\ k \in 1..k
  OBVIOUS
<1>2. Stage!Max(1..k) \in 1..k /\ \A m \in 1..k : Stage!Max(1..k) >= m
  BY <1>1, GreatestIn
<1> QED
  BY <1>1, <1>2

LEMMA SaveSteps ==
    ASSUME NEW S, NEW chunk \in Seq(S), NEW X, documents \in X,
           \A x \in X, j \in S : Stage!SaveOne(x, j) \in X
    PROVE  \E h : /\ h[0] = documents /\ h[Len(chunk)] = Stage!SaveAll(chunk)
                  /\ \A k \in 1..Len(chunk) : h[k] = Stage!SaveOne(h[k - 1], chunk[k])
<1> DEFINE P(g) == g = [s \in SUBSET DOMAIN chunk |->
                           IF s = {} THEN documents
                           ELSE Stage!SaveOne(g[s \ {Stage!Max(s)}], chunk[Stage!Max(s)])]
           n == Len(chunk)
           step == [q \in (1..n) \X X |-> Stage!SaveOne(q[2], chunk[q[1]])]
<1>1. DOMAIN chunk = 1..n /\ n \in Nat /\ \A k \in 1..n : chunk[k] \in S
  OBVIOUS
<1>2. Stage!SaveAll(chunk) = (CHOOSE g : P(g))[DOMAIN chunk]
  BY DEF Stage!SaveAll, Stage!FoldLeft, Stage!MapThenFoldSet
<1>3. \E g : P(g)
  <2>1. step \in [(1..n) \X X -> X]
    BY <1>1
  <2>2. \A k \in 1..n, x \in X : step[<<k, x>>] = Stage!SaveOne(x, chunk[k])
    OBVIOUS
  <2> HIDE DEF step
  <2>3. PICK g : Iterates(g, X, documents, n, step)
    <3> HIDE DEF n
    <3>1. n \in Nat
      BY <1>1
    <3> QED
      BY <2>1, <3>1, FoldExists
  <2>4. \A s \in SUBSET (1..n) : s # {} => step[<<Stage!Max(s), g[s \ {Stage!Max(s)}]>>]
                                            = Stage!SaveOne(g[s \ {Stage!Max(s)}], chunk[Stage!Max(s)])
    BY <1>1, <2>2, <2>3, GreatestIn DEF Iterates
  <2>5. P(g)
    BY <1>1, <2>3, <2>4 DEF Iterates
  <2> HIDE DEF P
  <2> QED
    BY <2>5
<1>4. PICK g : P(g) /\ Stage!SaveAll(chunk) = g[DOMAIN chunk]
  <2> HIDE DEF P
  <2> QED
    BY <1>2, <1>3
<1>5. PICK h : h = [k \in 0..n |-> g[1..k]]
  OBVIOUS
<1>6. h[0] = documents
  <2>1. 1..0 = {} /\ {} \in SUBSET DOMAIN chunk /\ 0 \in 0..n
    BY <1>1
  <2> QED
    BY <1>4, <1>5, <2>1
<1>7. h[n] = Stage!SaveAll(chunk)
  BY <1>1, <1>4, <1>5
<1>8. ASSUME NEW k \in 1..n PROVE h[k] = Stage!SaveOne(h[k - 1], chunk[k])
  <2>1. /\ 1..k # {} /\ Stage!Max(1..k) = k /\ (1..k) \ {k} = 1..(k - 1)
        /\ k \in 0..n /\ k - 1 \in 0..n /\ 1..k \in SUBSET DOMAIN chunk
    BY SMTT(60), <1>1, GreatestUpTo
  <2>2. g[1..k] = Stage!SaveOne(g[(1..k) \ {Stage!Max(1..k)}], chunk[Stage!Max(1..k)])
    BY <1>4, <2>1
  <2>3. h[k] = g[1..k] /\ h[k - 1] = g[1..(k - 1)]
    BY <1>5, <2>1
  <2> QED
    BY <2>1, <2>2, <2>3
<1> QED
  BY <1>6, <1>7, <1>8
\* The objects that pointers are to.
Pointed(ptrs, objs) == [i \in DOMAIN ptrs |-> objs[ptrs[i]]]

LEMMA ApproveSteps ==
    ASSUME NEW S, NEW ptrs, NEW objs, NEW chunk \in Seq(S),
           chunk = Pointed(ptrs, objs), NEW X, <<>> \in X,
           \A x \in X, j \in S : Stage!Approve(x, j) \in X
    PROVE  \E h : /\ h[0] = <<>> /\ h[Len(chunk)] = Stage!Approved(ptrs, objs)
                  /\ \A k \in 1..Len(chunk) : h[k] = Stage!Approve(h[k - 1], chunk[k])
<1> DEFINE P(g) == g = [s \in SUBSET DOMAIN chunk |->
                           IF s = {} THEN <<>>
                           ELSE Stage!Approve(g[s \ {Stage!Max(s)}], chunk[Stage!Max(s)])]
           n == Len(chunk)
           step == [q \in (1..n) \X X |-> Stage!Approve(q[2], chunk[q[1]])]
<1>1. DOMAIN chunk = 1..n /\ n \in Nat /\ \A k \in 1..n : chunk[k] \in S
  OBVIOUS
<1>2. Stage!Approved(ptrs, objs) = (CHOOSE g : P(g))[DOMAIN chunk]
  BY DEF Pointed, Stage!Approved, Stage!FoldLeft, Stage!MapThenFoldSet
<1>3. \E g : P(g)
  <2>1. step \in [(1..n) \X X -> X]
    BY <1>1
  <2>2. \A k \in 1..n, x \in X : step[<<k, x>>] = Stage!Approve(x, chunk[k])
    OBVIOUS
  <2> HIDE DEF step
  <2>3. PICK g : Iterates(g, X, <<>>, n, step)
    <3> HIDE DEF n
    <3>1. n \in Nat
      BY <1>1
    <3> QED
      BY <2>1, <3>1, FoldExists
  <2>4. \A s \in SUBSET (1..n) : s # {} => step[<<Stage!Max(s), g[s \ {Stage!Max(s)}]>>]
                                            = Stage!Approve(g[s \ {Stage!Max(s)}], chunk[Stage!Max(s)])
    BY <1>1, <2>2, <2>3, GreatestIn DEF Iterates
  <2>5. P(g)
    BY <1>1, <2>3, <2>4 DEF Iterates
  <2> HIDE DEF P
  <2> QED
    BY <2>5
<1>4. PICK g : P(g) /\ Stage!Approved(ptrs, objs) = g[DOMAIN chunk]
  <2> HIDE DEF P
  <2> QED
    BY <1>2, <1>3
<1>5. PICK h : h = [k \in 0..n |-> g[1..k]]
  OBVIOUS
<1>6. h[0] = <<>>
  <2>1. 1..0 = {} /\ {} \in SUBSET DOMAIN chunk /\ 0 \in 0..n
    BY <1>1
  <2> QED
    BY <1>4, <1>5, <2>1
<1>7. h[n] = Stage!Approved(ptrs, objs)
  BY <1>1, <1>4, <1>5
<1>8. ASSUME NEW k \in 1..n PROVE h[k] = Stage!Approve(h[k - 1], chunk[k])
  <2>1. /\ 1..k # {} /\ Stage!Max(1..k) = k /\ (1..k) \ {k} = 1..(k - 1)
        /\ k \in 0..n /\ k - 1 \in 0..n /\ 1..k \in SUBSET DOMAIN chunk
    BY SMTT(60), <1>1, GreatestUpTo
  <2>2. g[1..k] = Stage!Approve(g[(1..k) \ {Stage!Max(1..k)}], chunk[Stage!Max(1..k)])
    BY <1>4, <2>1
  <2>3. h[k] = g[1..k] /\ h[k - 1] = g[1..(k - 1)]
    BY <1>5, <2>1
  <2> QED
    BY <2>1, <2>2, <2>3
<1> QED
  BY <1>6, <1>7, <1>8

Unremembered == [known |-> known, flushed |-> flushed, buffer |-> buffer]

LEMMA RememberSteps ==
    ASSUME NEW S, written \in Seq(S), NEW X, Unremembered \in X,
           \A x \in X, j \in S : Stage!RememberOne(x, j) \in X
    PROVE  \E h : /\ h[0] = Unremembered /\ h[Len(written)] = Stage!Remembered
                  /\ \A k \in 1..Len(written) : h[k] = Stage!RememberOne(h[k - 1], written[k])
<1> DEFINE P(g) == g = [s \in SUBSET DOMAIN written |->
                           IF s = {} THEN Unremembered
                           ELSE Stage!RememberOne(g[s \ {Stage!Max(s)}], written[Stage!Max(s)])]
           n == Len(written)
           step == [q \in (1..n) \X X |-> Stage!RememberOne(q[2], written[q[1]])]
<1>1. DOMAIN written = 1..n /\ n \in Nat /\ \A k \in 1..n : written[k] \in S
  OBVIOUS
<1>2. Stage!Remembered = (CHOOSE g : P(g))[DOMAIN written]
  BY DEF Unremembered, Stage!Remembered, Stage!FoldLeft, Stage!MapThenFoldSet
<1>3. \E g : P(g)
  <2>1. step \in [(1..n) \X X -> X]
    BY <1>1
  <2>2. \A k \in 1..n, x \in X : step[<<k, x>>] = Stage!RememberOne(x, written[k])
    OBVIOUS
  <2> HIDE DEF step
  <2>3. PICK g : Iterates(g, X, Unremembered, n, step)
    <3> HIDE DEF n
    <3>1. n \in Nat
      BY <1>1
    <3> QED
      BY <2>1, <3>1, FoldExists
  <2>4. \A s \in SUBSET (1..n) : s # {} => step[<<Stage!Max(s), g[s \ {Stage!Max(s)}]>>]
                                            = Stage!RememberOne(g[s \ {Stage!Max(s)}], written[Stage!Max(s)])
    BY <1>1, <2>2, <2>3, GreatestIn DEF Iterates
  <2>5. P(g)
    BY <1>1, <2>3, <2>4 DEF Iterates
  <2> HIDE DEF P
  <2> QED
    BY <2>5
<1>4. PICK g : P(g) /\ Stage!Remembered = g[DOMAIN written]
  <2> HIDE DEF P
  <2> QED
    BY <1>2, <1>3
<1>5. PICK h : h = [k \in 0..n |-> g[1..k]]
  OBVIOUS
<1>6. h[0] = Unremembered
  <2>1. 1..0 = {} /\ {} \in SUBSET DOMAIN written /\ 0 \in 0..n
    BY <1>1
  <2> QED
    BY <1>4, <1>5, <2>1
<1>7. h[n] = Stage!Remembered
  BY <1>1, <1>4, <1>5
<1>8. ASSUME NEW k \in 1..n PROVE h[k] = Stage!RememberOne(h[k - 1], written[k])
  <2>1. /\ 1..k # {} /\ Stage!Max(1..k) = k /\ (1..k) \ {k} = 1..(k - 1)
        /\ k \in 0..n /\ k - 1 \in 0..n /\ 1..k \in SUBSET DOMAIN written
    BY <1>1, GreatestUpTo
  <2>2. g[1..k] = Stage!RememberOne(g[(1..k) \ {Stage!Max(1..k)}], written[Stage!Max(1..k)])
    BY <1>4, <2>1
  <2>3. h[k] = g[1..k] /\ h[k - 1] = g[1..(k - 1)]
    BY <1>5, <2>1
  <2> QED
    BY <2>1, <2>2, <2>3
<1> QED
  BY <1>6, <1>7, <1>8
-----------------------------------------------------------------------------
(* What the folds do. *)

Identified(docs) == \A i \in Stage!Id : docs[i].rev > 0 => Stage!StableId(docs[i].job) # Stage!NoId
Documents == {x \in [Stage!Id -> Stage!Doc] : Identified(x)}
Approvable == {j \in Stage!Posting : Stage!StableId(j) \in Stage!Id}

LEMMA SaveOneEffect ==
    ASSUME NEW docs \in Documents, NEW j \in Approvable
    PROVE  /\ Stage!SaveOne(docs, j) \in Documents
           /\ Stage!SaveOne(docs, j)[Stage!StableId(j)].rev = docs[Stage!StableId(j)].rev + 1
           /\ \A i \in Stage!Id \ {Stage!StableId(j)} : Stage!SaveOne(docs, j)[i] = docs[i]
<1>1. PICK i \in Stage!Id : i = Stage!StableId(j)
  BY DEF Approvable
<1>2. /\ docs \in [Stage!Id -> Stage!Doc] /\ Identified(docs) /\ j \in Stage!Posting
      /\ docs[i] \in Stage!Doc /\ Stage!StableId(j) # Stage!NoId
  BY <1>1, StageConstants DEF Documents, Approvable
<1>3. PICK new : new = [rev |-> docs[i].rev + 1,
                        job |-> [(IF docs[i].rev = 0 THEN j ELSE Stage!MergeStored(docs[i].job, j)) EXCEPT !.ext = 0]]
  OBVIOUS
<1>4. docs[i].rev > 0 => Stage!StableId(docs[i].job) # Stage!NoId
  BY <1>1, <1>2 DEF Identified
<1>5. new \in Stage!Doc /\ new.rev = docs[i].rev + 1 /\ Stage!StableId(new.job) # Stage!NoId
  BY ONLY <1>2, <1>3, <1>4, StoredJob
<1>6. Stage!SaveOne(docs, j) = [docs EXCEPT ![i] = new]
  BY <1>1, <1>3 DEF Stage!SaveOne
<1>7. PICK saved : saved = [docs EXCEPT ![i] = new]
  OBVIOUS
<1>8. saved \in [Stage!Id -> Stage!Doc] /\ saved[i] = new /\ \A l \in Stage!Id \ {i} : saved[l] = docs[l]
  BY <1>1, <1>2, <1>5, <1>7
<1>9. Identified(saved)
  BY <1>2, <1>5, <1>8 DEF Identified
<1> QED
  BY <1>1, <1>5, <1>6, <1>7, <1>8, <1>9 DEF Documents

\* Revisions only rise; what is saved is there, and the rest stays.
LEMMA SavedDocuments ==
    ASSUME documents \in Documents, NEW chunk \in Seq(Approvable), NEW saved, saved = Stage!SaveAll(chunk)
    PROVE  /\ saved \in Documents
           /\ \A i \in Stage!Id : saved[i].rev >= documents[i].rev
           /\ \A k \in 1..Len(chunk) : saved[Stage!StableId(chunk[k])].rev > 0
           /\ \A i \in Stage!Id : (\A k \in 1..Len(chunk) : Stage!StableId(chunk[k]) # i) => saved[i] = documents[i]
<1> DEFINE n == Len(chunk)
           Grown(x, k) ==
               /\ x \in Documents /\ \A i \in Stage!Id : x[i].rev >= documents[i].rev
               /\ \A m \in 1..k : x[Stage!StableId(chunk[m])].rev > 0
               /\ \A i \in Stage!Id : (\A m \in 1..k : Stage!StableId(chunk[m]) # i) => x[i] = documents[i]
<1>1. n \in Nat /\ \A k \in 1..n : chunk[k] \in Approvable /\ Stage!StableId(chunk[k]) \in Stage!Id
  BY DEF Approvable
<1>2. \A x \in Documents, j \in Approvable : Stage!SaveOne(x, j) \in Documents
  BY SaveOneEffect
<1>3. PICK h : /\ h[0] = documents /\ h[n] = saved
               /\ \A k \in 1..n : h[k] = Stage!SaveOne(h[k - 1], chunk[k])
  BY <1>2, SaveSteps
<1>4. \A x \in Documents, i \in Stage!Id : x[i].rev \in Nat
  BY DEF Documents, Stage!Doc
<1> DEFINE T == {k \in 0..n : Grown(h[k], k)}
<1>5. 0 \in T
  <2>1. Grown(documents, 0)
    BY <1>4
  <2> QED
    BY <1>1, <1>3, <2>1
<1>6. ASSUME NEW k \in 0..n, k \in T, k # n PROVE k + 1 \in T
  <2>1. k + 1 \in 1..n /\ k + 1 \in 0..n /\ h[k + 1] = Stage!SaveOne(h[k], chunk[k + 1])
    <3>1. k + 1 \in 1..n /\ k + 1 - 1 = k
      BY <1>1, <1>6
    <3> QED
      BY <1>3, <3>1
  <2>2. PICK x, y, id : x = h[k] /\ y = h[k + 1] /\ id = Stage!StableId(chunk[k + 1])
    OBVIOUS
  <2>3. Grown(x, k) /\ x \in Documents
    BY <1>6, <2>2
  <2>4. y \in Documents /\ y[id].rev = x[id].rev + 1 /\ id \in Stage!Id /\ \A i \in Stage!Id \ {id} : y[i] = x[i]
    <3>1. PICK j \in Approvable : j = chunk[k + 1]
      BY <1>1, <2>1
    <3>2. y = Stage!SaveOne(x, j) /\ id = Stage!StableId(j) /\ id \in Stage!Id
      BY <1>1, <2>1, <2>2, <3>1
    <3> HIDE DEF Grown
    <3> QED
      BY <2>3, <3>2, SaveOneEffect
  <2>5. \A i \in Stage!Id : y[i].rev >= x[i].rev /\ y[i].rev \in Nat /\ x[i].rev \in Nat /\ documents[i].rev \in Nat
    BY <1>4, <2>3, <2>4
  <2>6. \A m \in 1..(k + 1) : (m \in 1..k \/ m = k + 1) /\ Stage!StableId(chunk[m]) \in Stage!Id
    BY <1>1, <2>1
  <2>7. \A m \in 1..(k + 1) : y[Stage!StableId(chunk[m])].rev > 0
    <3>1. ASSUME NEW m \in 1..k PROVE y[Stage!StableId(chunk[m])].rev > 0
      <4>1. x[Stage!StableId(chunk[m])].rev > 0 /\ Stage!StableId(chunk[m]) \in Stage!Id
        BY <1>1, <2>1, <2>3
      <4> QED
        BY <2>5, <4>1
    <3>2. y[id].rev > 0
      BY <2>4, <2>5
    <3> QED
      BY <2>2, <2>6, <3>1, <3>2
  <2>8. ASSUME NEW i \in Stage!Id, \A m \in 1..(k + 1) : Stage!StableId(chunk[m]) # i PROVE y[i] = documents[i]
    <3>1. i # id /\ \A m \in 1..k : Stage!StableId(chunk[m]) # i
      BY <2>1, <2>2, <2>8
    <3> QED
      BY <2>3, <2>4, <3>1
  <2>9. \A i \in Stage!Id : y[i].rev >= documents[i].rev
    BY <2>3, <2>5
  <2>10. Grown(y, k + 1)
    BY <2>4, <2>7, <2>8, <2>9
  <2> HIDE DEF Grown
  <2> QED
    BY <2>1, <2>2, <2>10
<1>7. n \in T
  <2> HIDE DEF T
  <2>1. 0..n \subseteq T
    BY <1>1, <1>5, <1>6, UpTo
  <2> QED
    BY <1>1, <2>1
<1> QED
  BY <1>3, <1>7

LEMMA ApprovedJobs ==
    ASSUME NEW objs \in Seq(Stage!Posting), NEW ptrs \in Seq(1..Len(objs)),
           NEW todo1, todo1 = Stage!Approved(ptrs, objs)
    PROVE  todo1 \in Seq(Approvable) /\ Len(todo1) <= Len(ptrs)
<1>1. PICK chunk : chunk = Pointed(ptrs, objs)
  OBVIOUS
<1>2. chunk \in Seq(Stage!Posting) /\ Len(chunk) = Len(ptrs) /\ Len(ptrs) \in Nat
  <2>1. Len(ptrs) \in Nat /\ DOMAIN ptrs = 1..Len(ptrs) /\ \A i \in 1..Len(ptrs) : ptrs[i] \in 1..Len(objs)
    OBVIOUS
  <2>2. \A p \in 1..Len(objs) : objs[p] \in Stage!Posting
    OBVIOUS
  <2>3. DOMAIN chunk = 1..Len(ptrs) /\ \A i \in 1..Len(ptrs) : chunk[i] \in Stage!Posting
    BY <1>1, <2>1, <2>2 DEF Pointed
  <2>4. chunk = [i \in 1..Len(ptrs) |-> chunk[i]]
    BY <1>1, <2>1 DEF Pointed
  <2> QED
    BY <2>1, <2>3, <2>4
<1>3. ASSUME NEW x \in Seq(Approvable), NEW j \in Stage!Posting
      PROVE  Stage!Approve(x, j) \in Seq(Approvable) /\ Len(Stage!Approve(x, j)) <= Len(x) + 1
  <2>1. PICK k : k = Stage!Classify(j)
    OBVIOUS
  <2>2. Stage!StableId(j) # Stage!NoId => k \in Approvable
    BY <2>1, ClassifyType, StableIdType DEF Approvable
  <2>3. k \in Approvable => Append(x, k) \in Seq(Approvable) /\ Len(Append(x, k)) = Len(x) + 1
    OBVIOUS
  <2> QED
    BY <2>1, <2>2, <2>3 DEF Stage!Approve
<1>4. <<>> \in Seq(Approvable)
  OBVIOUS
<1>5. PICK h : /\ h[0] = <<>> /\ h[Len(chunk)] = todo1
               /\ \A k \in 1..Len(chunk) : h[k] = Stage!Approve(h[k - 1], chunk[k])
  <2>1. \A x \in Seq(Approvable), j \in Stage!Posting : Stage!Approve(x, j) \in Seq(Approvable)
    BY <1>3
  <2>2. PICK X, S : X = Seq(Approvable) /\ S = Stage!Posting
    OBVIOUS
  <2>3. chunk \in Seq(S) /\ <<>> \in X /\ \A x \in X, j \in S : Stage!Approve(x, j) \in X
    BY <1>2, <1>4, <2>1, <2>2
  <2>4. \E h : /\ h[0] = <<>> /\ h[Len(chunk)] = Stage!Approved(ptrs, objs)
                /\ \A k \in 1..Len(chunk) : h[k] = Stage!Approve(h[k - 1], chunk[k])
    BY ONLY SMTT(60), <1>1, <2>3, ApproveSteps
  <2> QED
    BY <2>4
<1> DEFINE n == Len(chunk)
           T == {k \in 0..n : h[k] \in Seq(Approvable) /\ Len(h[k]) <= k}
<1>6. 0 \in T
  <2>1. h[0] \in Seq(Approvable) /\ Len(h[0]) = 0 /\ 0 \in 0..n
    BY <1>2, <1>4, <1>5
  <2> QED
    BY <2>1
<1>7. ASSUME NEW k \in 0..n, k \in T, k # n PROVE k + 1 \in T
  <2>1. k + 1 \in 1..n /\ k + 1 - 1 = k
    BY <1>2, <1>7
  <2>2. h[k + 1] = Stage!Approve(h[k], chunk[k + 1]) /\ chunk[k + 1] \in Stage!Posting
    BY <1>2, <1>5, <2>1
  <2>3. h[k] \in Seq(Approvable) /\ Len(h[k]) <= k /\ Len(h[k]) \in Nat
    BY <1>7
  <2>4. h[k + 1] \in Seq(Approvable) /\ Len(h[k + 1]) <= Len(h[k]) + 1 /\ Len(h[k + 1]) \in Nat
    <3>1. PICK x \in Seq(Approvable), j \in Stage!Posting : x = h[k] /\ j = chunk[k + 1]
      BY <2>2, <2>3
    <3>2. Stage!Approve(x, j) \in Seq(Approvable) /\ Len(Stage!Approve(x, j)) <= Len(x) + 1
      BY <1>3
    <3>3. \A t \in Seq(Approvable) : Len(t) \in Nat
      OBVIOUS
    <3> QED
      BY <2>2, <3>1, <3>2, <3>3
  <2> QED
    BY <2>1, <2>3, <2>4
<1>8. n \in T
  <2> HIDE DEF T
  <2>1. n \in Nat
    BY <1>2
  <2>2. 0..n \subseteq T
    BY <1>6, <1>7, <2>1, UpTo
  <2> QED
    BY <2>1, <2>2
<1> QED
  BY <1>2, <1>5, <1>8

Confirmation == {d \in [id : Stage!Id, doc : Stage!Doc] : d.doc.rev > 0 /\ Stage!StableId(d.doc.job) # Stage!NoId}
Queued(buf, i) == \E n \in DOMAIN buf : buf[n].id = i

\* A late duplicate finds its job; what is queued is the revision that is known.
Memory ==
    {m \in [known : Documents, flushed : [Stage!Key -> Stage!Id \cup {Stage!NoId}], buffer : Seq(Stage!Entry)] :
        /\ \A k \in Stage!Key : m.flushed[k] # Stage!NoId => m.known[m.flushed[k]].rev > 0
        /\ \A n \in DOMAIN m.buffer : m.buffer[n].rev = m.known[m.buffer[n].id].rev}

LEMMA EnqueueEffect ==
    ASSUME NEW buf \in Seq(Stage!Entry), NEW d \in Confirmation, NEW b, b = Stage!Enqueue(buf, d)
    PROVE  /\ b \in Seq(Stage!Entry)
           /\ \A n \in DOMAIN b : \/ b[n].id = d.id /\ b[n].rev = d.doc.rev
                                  \/ b[n].id # d.id /\ \E k \in DOMAIN buf : buf[k] = b[n]
           /\ Queued(b, d.id) /\ \A i \in Stage!Id : Queued(buf, i) => Queued(b, i)
<1>1. d.id \in Stage!Id /\ d.doc.rev \in Nat \ {0}
  BY DEF Confirmation, Stage!Doc
<1>2. Len(buf) \in Nat /\ DOMAIN buf = 1..Len(buf)
      /\ \A n \in DOMAIN buf : buf[n] \in Stage!Entry /\ buf[n].id \in Stage!Id
  <2>1. Len(buf) \in Nat /\ DOMAIN buf = 1..Len(buf) /\ \A n \in 1..Len(buf) : buf[n] \in Stage!Entry
    OBVIOUS
  <2>2. \A e \in Stage!Entry : e.id \in Stage!Id
    BY DEF Stage!Entry
  <2> QED
    BY <2>1, <2>2
<1>3. CASE Queued(buf, d.id)
  <2>1. b = [i \in DOMAIN buf |-> IF buf[i].id = d.id THEN [buf[i] EXCEPT !.rev = d.doc.rev] ELSE buf[i]]
    BY <1>3 DEF Stage!Enqueue, Queued
  <2>2. ASSUME NEW n \in DOMAIN buf
        PROVE  /\ b[n] \in Stage!Entry /\ b[n].id = buf[n].id
               /\ b[n].id = d.id => b[n].rev = d.doc.rev
               /\ b[n].id # d.id => b[n] = buf[n]
    <3>1. PICK e \in Stage!Entry : e = buf[n]
      BY <1>2
    <3>2. [e EXCEPT !.rev = d.doc.rev] \in Stage!Entry /\ [e EXCEPT !.rev = d.doc.rev].id = e.id
          /\ [e EXCEPT !.rev = d.doc.rev].rev = d.doc.rev
      BY <1>1 DEF Stage!Entry
    <3>3. b[n] = IF e.id = d.id THEN [e EXCEPT !.rev = d.doc.rev] ELSE e
      BY <2>1, <3>1
    <3> QED
      BY <3>1, <3>2, <3>3
  <2>3. DOMAIN b = DOMAIN buf /\ b = [i \in 1..Len(buf) |-> b[i]]
    BY <1>2, <2>1
  <2>4. b \in Seq(Stage!Entry)
    BY <1>2, <2>2, <2>3
  <2>5. \A i \in Stage!Id : Queued(buf, i) => Queued(b, i)
    BY <2>2, <2>3 DEF Queued
  <2> QED
    BY <1>1, <1>3, <2>2, <2>3, <2>4, <2>5
<1>4. CASE ~Queued(buf, d.id)
  <2>1. PICK e : e = [id |-> d.id, rev |-> d.doc.rev]
    OBVIOUS
  <2>2. e \in Stage!Entry /\ e.id = d.id /\ e.rev = d.doc.rev
    BY <1>1, <2>1 DEF Stage!Entry
  <2>3. b = Append(buf, e)
    BY <1>4, <2>1 DEF Stage!Enqueue, Queued
  <2>4. b \in Seq(Stage!Entry) /\ DOMAIN b = 1..(Len(buf) + 1)
        /\ b[Len(buf) + 1] = e /\ \A n \in DOMAIN buf : b[n] = buf[n]
    BY <1>2, <2>2, <2>3
  <2>5. \A n \in DOMAIN b : n \in DOMAIN buf \/ n = Len(buf) + 1
    BY <1>2, <2>4
  <2>6. DOMAIN buf \subseteq DOMAIN b /\ Len(buf) + 1 \in DOMAIN b
    BY <1>2, <2>4
  <2>7. Queued(b, d.id) /\ \A i \in Stage!Id : Queued(buf, i) => Queued(b, i)
    BY <2>2, <2>4, <2>6 DEF Queued
  <2>8. ASSUME NEW n \in DOMAIN buf PROVE b[n].id # d.id /\ buf[n] = b[n]
    BY <1>4, <2>4 DEF Queued
  <2> QED
    BY <2>2, <2>4, <2>5, <2>7, <2>8
<1> QED
  BY <1>3, <1>4

LEMMA RememberOneEffect ==
    ASSUME NEW m \in Memory, NEW d \in Confirmation, NEW r, r = Stage!RememberOne(m, d)
    PROVE  /\ r \in Memory /\ r.known[d.id] = d.doc /\ \A i \in Stage!Id \ {d.id} : r.known[i] = m.known[i]
           /\ Queued(r.buffer, d.id) /\ \A i \in Stage!Id : Queued(m.buffer, i) => Queued(r.buffer, i)
<1>1. PICK docs, keys, buf : /\ docs = [m.known EXCEPT ![d.id] = d.doc]
                             /\ keys = [k \in Stage!Key |-> IF k \in Stage!Keys(d.doc.job) THEN d.id ELSE m.flushed[k]]
                             /\ buf = Stage!Enqueue(m.buffer, d)
  OBVIOUS
<1>2. r = [known |-> docs, flushed |-> keys, buffer |-> buf]
  BY <1>1 DEF Stage!RememberOne
<1>3. d.id \in Stage!Id /\ d.doc \in Stage!Doc /\ d.doc.rev > 0 /\ Stage!StableId(d.doc.job) # Stage!NoId
  BY DEF Confirmation
<1>4. /\ m.known \in [Stage!Id -> Stage!Doc] /\ Identified(m.known)
      /\ m.flushed \in [Stage!Key -> Stage!Id \cup {Stage!NoId}] /\ m.buffer \in Seq(Stage!Entry)
      /\ \A k \in Stage!Key : m.flushed[k] # Stage!NoId => m.known[m.flushed[k]].rev > 0
      /\ \A n \in DOMAIN m.buffer : m.buffer[n].rev = m.known[m.buffer[n].id].rev
  BY DEF Memory, Documents
<1>5. /\ docs \in [Stage!Id -> Stage!Doc] /\ docs[d.id] = d.doc
      /\ \A i \in Stage!Id \ {d.id} : docs[i] = m.known[i]
  BY <1>1, <1>3, <1>4
<1>6. Identified(docs)
  BY <1>3, <1>4, <1>5 DEF Identified
<1>7. keys \in [Stage!Key -> Stage!Id \cup {Stage!NoId}]
  BY <1>1, <1>3, <1>4
<1>8. ASSUME NEW k \in Stage!Key, keys[k] # Stage!NoId PROVE docs[keys[k]].rev > 0
  <2>1. keys[k] = d.id \/ keys[k] = m.flushed[k]
    BY <1>1
  <2>2. keys[k] \in Stage!Id
    BY <1>7, <1>8
  <2> QED
    BY <1>3, <1>4, <1>5, <1>8, <2>1, <2>2
<1>9. /\ buf \in Seq(Stage!Entry)
      /\ \A n \in DOMAIN buf : \/ buf[n].id = d.id /\ buf[n].rev = d.doc.rev
                               \/ buf[n].id # d.id /\ \E k \in DOMAIN m.buffer : m.buffer[k] = buf[n]
      /\ Queued(buf, d.id) /\ \A i \in Stage!Id : Queued(m.buffer, i) => Queued(buf, i)
  <2>1. PICK q : q = m.buffer /\ q \in Seq(Stage!Entry)
    BY <1>4
  <2>2. buf = Stage!Enqueue(q, d)
    BY <1>1, <2>1
  <2>3. /\ buf \in Seq(Stage!Entry)
        /\ \A n \in DOMAIN buf : \/ buf[n].id = d.id /\ buf[n].rev = d.doc.rev
                                 \/ buf[n].id # d.id /\ \E k \in DOMAIN q : q[k] = buf[n]
        /\ Queued(buf, d.id) /\ \A i \in Stage!Id : Queued(q, i) => Queued(buf, i)
    BY <2>1, <2>2, EnqueueEffect
  <2> QED
    BY <2>1, <2>3
<1>10. ASSUME NEW n \in DOMAIN buf PROVE buf[n].rev = docs[buf[n].id].rev
  <2>1. CASE buf[n].id = d.id
    BY <1>5, <1>9, <2>1
  <2>2. CASE buf[n].id # d.id
    <3>1. buf[n].id \in Stage!Id
      <4>1. buf[n] \in Stage!Entry
        BY <1>9
      <4> QED
        BY <4>1 DEF Stage!Entry
    <3>2. PICK k \in DOMAIN m.buffer : m.buffer[k] = buf[n]
      BY <1>9, <2>2
    <3>3. buf[n].rev = m.known[buf[n].id].rev
      BY <1>4, <3>2
    <3> QED
      BY <1>5, <2>2, <3>1, <3>3
  <2> QED
    BY <2>1, <2>2
<1>11. docs \in Documents
  BY <1>5, <1>6 DEF Documents
<1>12. r.known = docs /\ r.flushed = keys /\ r.buffer = buf
  BY <1>2
<1>13. r \in [known : Documents, flushed : [Stage!Key -> Stage!Id \cup {Stage!NoId}], buffer : Seq(Stage!Entry)]
  BY <1>2, <1>7, <1>9, <1>11
<1>14. r \in Memory
  BY <1>8, <1>10, <1>12, <1>13 DEF Memory
<1> QED
  BY <1>5, <1>9, <1>12, <1>14

\* What was written is known, as it was written last, and queued; what waited still waits.
LEMMA RememberedEffect ==
    ASSUME written \in Seq(Confirmation), Unremembered \in Memory, NEW m, m = Stage!Remembered
    PROVE  /\ m \in Memory
           /\ \A i \in Stage!Id : Queued(buffer, i) => Queued(m.buffer, i)
           /\ \A k \in 1..Len(written) : Queued(m.buffer, written[k].id)
           /\ \A i \in Stage!Id : (\A k \in 1..Len(written) : written[k].id # i) => m.known[i] = known[i]
           /\ \A i \in Stage!Id : \/ m.known[i] = known[i]
                                  \/ \E k \in 1..Len(written) : written[k].id = i /\ m.known[i] = written[k].doc
           /\ \A k \in 1..Len(written) : (\A x \in 1..Len(written) : x > k => written[x].id # written[k].id)
                                            => m.known[written[k].id] = written[k].doc
<1> DEFINE n == Len(written)
           Told(r, k) ==
               /\ r \in Memory
               /\ \A i \in Stage!Id : Queued(buffer, i) => Queued(r.buffer, i)
               /\ \A y \in 1..k : Queued(r.buffer, written[y].id)
               /\ \A i \in Stage!Id : (\A y \in 1..k : written[y].id # i) => r.known[i] = known[i]
               /\ \A i \in Stage!Id : \/ r.known[i] = known[i]
                                      \/ \E y \in 1..k : written[y].id = i /\ r.known[i] = written[y].doc
               /\ \A y \in 1..k : (\A x \in 1..k : x > y => written[x].id # written[y].id)
                                     => r.known[written[y].id] = written[y].doc
<1>1. n \in Nat /\ \A k \in 1..n : written[k] \in Confirmation /\ written[k].id \in Stage!Id
  BY DEF Confirmation
<1>2. \A r \in Memory, d \in Confirmation : Stage!RememberOne(r, d) \in Memory
  BY RememberOneEffect
<1>3. PICK h : /\ h[0] = Unremembered /\ h[n] = m
               /\ \A k \in 1..n : h[k] = Stage!RememberOne(h[k - 1], written[k])
  BY <1>2, RememberSteps
<1> DEFINE T == {k \in 0..n : Told(h[k], k)}
<1>4. 0 \in T
  <2>1. PICK r : r = Unremembered
    OBVIOUS
  <2>2. r \in Memory /\ r.known = known /\ r.buffer = buffer
    BY <2>1 DEF Unremembered
  <2>3. \A y \in 1..0 : FALSE
    OBVIOUS
  <2>4. Told(r, 0)
    BY <2>2, <2>3
  <2> HIDE DEF Told
  <2> QED
    BY <1>1, <1>3, <2>1, <2>4
<1>5. ASSUME NEW k \in 0..n, k \in T, k # n PROVE k + 1 \in T
  <2>1. k + 1 \in 1..n /\ k + 1 \in 0..n /\ h[k + 1] = Stage!RememberOne(h[k], written[k + 1])
    <3>1. k + 1 \in 1..n /\ k + 1 - 1 = k
      BY <1>1, <1>5
    <3> QED
      BY <1>3, <3>1
  <2>2. PICK r, s : r = h[k] /\ s = h[k + 1]
    OBVIOUS
  <2>3. PICK d \in Confirmation : d = written[k + 1] /\ d.id \in Stage!Id
    BY <1>1, <2>1
  <2>4. Told(r, k)
    BY <1>5, <2>2
  <2>5. /\ s \in Memory /\ s.known[d.id] = d.doc /\ \A i \in Stage!Id \ {d.id} : s.known[i] = r.known[i]
        /\ Queued(s.buffer, d.id) /\ \A i \in Stage!Id : Queued(r.buffer, i) => Queued(s.buffer, i)
    <3>1. r \in Memory /\ s = Stage!RememberOne(r, d)
      BY <2>1, <2>2, <2>3, <2>4
    <3> HIDE DEF Told
    <3> QED
      BY ONLY <3>1, d \in Confirmation, RememberOneEffect
  <2>6. /\ \A y \in 1..(k + 1) : (y \in 1..k \/ y = k + 1) /\ written[y].id \in Stage!Id
        /\ \A y \in 1..k : y \in 1..(k + 1) /\ k + 1 > y
        /\ k + 1 \in 1..(k + 1)
    BY <1>1, <2>1
  <2>7. \A i \in Stage!Id : Queued(buffer, i) => Queued(s.buffer, i)
    BY <2>4, <2>5
  <2>8. \A y \in 1..(k + 1) : Queued(s.buffer, written[y].id)
    BY <2>3, <2>4, <2>5, <2>6
  <2>9. ASSUME NEW i \in Stage!Id, \A y \in 1..(k + 1) : written[y].id # i PROVE s.known[i] = known[i]
    <3>1. i # d.id /\ \A y \in 1..k : written[y].id # i
      BY <2>3, <2>6, <2>9
    <3> QED
      BY <2>4, <2>5, <3>1
  <2>10. ASSUME NEW i \in Stage!Id
         PROVE  \/ s.known[i] = known[i]
                \/ \E y \in 1..(k + 1) : written[y].id = i /\ s.known[i] = written[y].doc
    <3>1. CASE i = d.id
      BY <2>3, <2>5, <2>6, <3>1
    <3>2. CASE i # d.id
      <4>1. s.known[i] = r.known[i]
        BY <2>5, <3>2
      <4>2. r.known[i] = known[i] \/ \E y \in 1..k : written[y].id = i /\ r.known[i] = written[y].doc
        BY <2>4
      <4> QED
        BY <2>6, <4>1, <4>2
    <3> QED
      BY <3>1, <3>2
  <2>11. ASSUME NEW y \in 1..(k + 1), \A x \in 1..(k + 1) : x > y => written[x].id # written[y].id
         PROVE  s.known[written[y].id] = written[y].doc
    <3>1. CASE y = k + 1
      BY <2>3, <2>5, <3>1
    <3>2. CASE y \in 1..k
      <4>1. written[y].id # d.id /\ written[y].id \in Stage!Id
        BY <2>3, <2>6, <2>11, <3>2
      <4>2. \A x \in 1..k : x > y => written[x].id # written[y].id
        BY <2>6, <2>11
      <4>3. r.known[written[y].id] = written[y].doc
        BY <2>4, <3>2, <4>2
      <4> QED
        BY <2>5, <4>1, <4>3
    <3> QED
      BY <2>6, <3>1, <3>2
  <2>12. Told(s, k + 1)
    BY <2>5, <2>7, <2>8, <2>9, <2>10, <2>11
  <2> HIDE DEF Told
  <2> QED
    BY <2>1, <2>2, <2>12
<1>6. n \in T
  <2> HIDE DEF T
  <2>1. 0..n \subseteq T
    BY <1>1, <1>4, <1>5, UpTo
  <2> QED
    BY <1>1, <2>1
<1> QED
  BY SMTT(60), <1>3, <1>6

LEMMA Parted ==
    ASSUME NEW S, NEW s \in Seq(S), NEW n \in Nat \ {0},
           NEW chunk, chunk = Stage!FirstOf(s, n), NEW rest, rest = Stage!After(s, n)
    PROVE  /\ chunk \in Seq(S) /\ rest \in Seq(S) /\ Len(rest) <= Len(s)
           /\ \A k \in DOMAIN chunk : \E i \in DOMAIN s : chunk[k] = s[i]
           /\ \A k \in DOMAIN rest : \E i \in DOMAIN s : rest[k] = s[i]
           /\ \A i \in DOMAIN s : \/ \E k \in DOMAIN chunk : chunk[k] = s[i]
                                  \/ \E k \in DOMAIN rest : rest[k] = s[i]
<1>1. PICK len : len = Len(s) /\ len \in Nat /\ DOMAIN s = 1..len /\ \A i \in 1..len : s[i] \in S
  OBVIOUS
<1>2. PICK c : c = Stage!Min({n, Len(s)}) /\ c \in Nat /\ c <= n /\ c <= len /\ (c = n \/ c = len)
  <2>1. \E x \in {n, len} : \A y \in {n, len} : x <= y
    BY <1>1
  <2>2. Stage!Min({n, len}) \in {n, len} /\ \A y \in {n, len} : Stage!Min({n, len}) <= y
    BY <2>1 DEF Stage!Min
  <2> QED
    BY <1>1, <2>2
<1>3. chunk = SubSeq(s, 1, c) /\ rest = SubSeq(s, n + 1, len)
  BY <1>1, <1>2 DEF Stage!FirstOf, Stage!After
<1>4. n \in Nat /\ n > 0 /\ n \in Int /\ n + 1 \in Int /\ len \in Int /\ c \in Nat /\ c \in Int /\ 1 \in Int
  BY <1>1, <1>2
<1>5. /\ chunk \in Seq(S) /\ Len(chunk) = c /\ \A i \in 1..c : chunk[i] = s[i]
  <2>1. \A i \in 1..c : s[i] \in S
    <3>1. \A i \in 1..c : i \in 1..len
      BY ONLY <1>1, <1>2
    <3> QED
      BY ONLY <1>1, <3>1
  <2>2. /\ SubSeq(s, 1, c) \in Seq(S) /\ Len(SubSeq(s, 1, c)) = IF 1 <= c THEN c - 1 + 1 ELSE 0
        /\ \A i \in 1..(c - 1 + 1) : SubSeq(s, 1, c)[i] = s[1 + i - 1]
    BY ONLY <1>4, <2>1, SubSeqProperties
  <2>3. /\ c - 1 + 1 = c /\ (IF 1 <= c THEN c - 1 + 1 ELSE 0) = c
        /\ \A i \in 1..c : i \in 1..(c - 1 + 1) /\ 1 + i - 1 = i
    BY ONLY <1>4
  <2> QED
    BY ONLY <1>3, <2>2, <2>3
<1>6. /\ rest \in Seq(S) /\ Len(rest) = IF n < len THEN len - n ELSE 0
      /\ \A i \in 1..(len - n) : rest[i] = s[n + i]
  <2>1. \A i \in (n + 1)..len : s[i] \in S
    <3>1. \A i \in (n + 1)..len : i \in 1..len
      BY ONLY <1>1, <1>4
    <3> QED
      BY ONLY <1>1, <3>1
  <2>2. /\ SubSeq(s, n + 1, len) \in Seq(S)
        /\ Len(SubSeq(s, n + 1, len)) = IF n + 1 <= len THEN len - (n + 1) + 1 ELSE 0
        /\ \A i \in 1..(len - (n + 1) + 1) : SubSeq(s, n + 1, len)[i] = s[n + 1 + i - 1]
    BY ONLY <1>4, <2>1, SubSeqProperties
  <2>3. /\ \A i \in 1..(len - n) : i \in 1..(len - (n + 1) + 1) /\ n + 1 + i - 1 = n + i
        /\ (IF n + 1 <= len THEN len - (n + 1) + 1 ELSE 0) = (IF n < len THEN len - n ELSE 0)
    BY ONLY <1>1, <1>4
  <2> QED
    BY ONLY <1>3, <2>2, <2>3
<1>7. DOMAIN chunk = 1..c /\ DOMAIN rest = 1..Len(rest)
  BY <1>5, <1>6
<1>8. Len(rest) <= len /\ \A k \in 1..Len(rest) : k \in 1..(len - n) /\ n + k \in 1..len
  BY ONLY <1>1, <1>4, <1>6
<1>9. \A k \in 1..c : k \in 1..len
  BY ONLY <1>1, <1>2
<1>10. ASSUME NEW i \in DOMAIN s
       PROVE  (\E k \in DOMAIN chunk : chunk[k] = s[i]) \/ (\E k \in DOMAIN rest : rest[k] = s[i])
  <2>1. i \in 1..len
    BY <1>1
  <2>2. CASE i <= c
    <3>1. i \in 1..c
      BY ONLY <1>2, <2>1, <2>2
    <3> QED
      BY <1>5, <1>7, <3>1
  <2>3. CASE ~(i <= c)
    <3>1. i - n \in 1..(len - n) /\ i - n \in 1..Len(rest) /\ n + (i - n) = i
      BY ONLY <1>1, <1>2, <1>4, <1>6, <2>1, <2>3
    <3> QED
      BY <1>6, <1>7, <3>1
  <2> QED
    BY <2>2, <2>3
<1>11. ASSUME NEW k \in DOMAIN rest PROVE \E i \in DOMAIN s : rest[k] = s[i]
  BY <1>1, <1>6, <1>7, <1>8
<1>12. ASSUME NEW k \in DOMAIN chunk PROVE \E i \in DOMAIN s : chunk[k] = s[i]
  BY <1>1, <1>5, <1>7, <1>9
<1> QED
  BY <1>1, <1>5, <1>6, <1>8, <1>10, <1>11, <1>12

LEMMA FunctionIsSequence ==
    ASSUME NEW S, NEW n \in Nat, NEW f \in [1..n -> S]
    PROVE  f \in Seq(S) /\ Len(f) = n
OBVIOUS

\* One sequence after another.
IsJoin(all, S, s, t, a, b) ==
    /\ all \in Seq(S) /\ Len(all) = a + b /\ a \in Nat /\ b \in Nat
    /\ \A n \in 1..a : all[n] = s[n]
    /\ \A k \in 1..b : a + k \in 1..(a + b) /\ all[a + k] = t[k]
    /\ \A n \in 1..(a + b) : n \in 1..a \/ \E k \in 1..b : n = a + k

LEMMA Joined ==
    ASSUME NEW S, NEW s \in Seq(S), NEW t \in Seq(S), NEW all, all = s \o t,
           NEW a, a = Len(s), NEW b, b = Len(t)
    PROVE  IsJoin(all, S, s, t, a, b)
<1>1. a \in Nat /\ b \in Nat
  OBVIOUS
<1>2. /\ s \o t \in Seq(S) /\ Len(s \o t) = Len(s) + Len(t)
      /\ \A i \in 1..Len(s) + Len(t) : (s \o t)[i] = IF i <= Len(s) THEN s[i] ELSE t[i - Len(s)]
  BY ConcatProperties
<1>3. /\ all \in Seq(S) /\ Len(all) = a + b
      /\ \A i \in 1..(a + b) : all[i] = IF i <= a THEN s[i] ELSE t[i - a]
  BY <1>2
<1>4. /\ \A n \in 1..a : n \in 1..(a + b) /\ n <= a
      /\ \A k \in 1..b : a + k \in 1..(a + b) /\ ~(a + k <= a) /\ a + k - a = k
      /\ \A n \in 1..(a + b) : n \in 1..a \/ (n - a \in 1..b /\ n = a + (n - a))
  BY ONLY <1>1
<1>5. \A n \in 1..a : all[n] = s[n]
  BY ONLY <1>3, <1>4
<1>6. \A k \in 1..b : a + k \in 1..(a + b) /\ all[a + k] = t[k]
  <2>1. ASSUME NEW k \in 1..b PROVE a + k \in 1..(a + b) /\ all[a + k] = t[k]
    <3>1. a + k \in 1..(a + b) /\ ~(a + k <= a) /\ a + k - a = k
      BY ONLY <1>4, <2>1
    <3>2. PICK i : i = a + k
      OBVIOUS
    <3>3. i \in 1..(a + b) /\ ~(i <= a) /\ i - a = k
      BY ONLY <1>1, <2>1, <3>1, <3>2
    <3>4. all[i] = IF i <= a THEN s[i] ELSE t[i - a]
      BY ONLY <1>3, <3>3
    <3>5. all[i] = t[i - a]
      BY ONLY <3>3, <3>4
    <3> QED
      BY ONLY <3>2, <3>3, <3>5
  <2> QED
    BY <2>1
<1>7. \A n \in 1..(a + b) : n \in 1..a \/ \E k \in 1..b : n = a + k
  BY ONLY <1>4
<1> QED
  BY <1>1, <1>3, <1>5, <1>6, <1>7 DEF IsJoin

\* The IDs of a chunk, each once.
IdsOf(chunk) == Stage!SetToSeq({Stage!StableId(j) : j \in Stage!Range(chunk)})

LEMMA IdsOfChunk ==
    ASSUME NEW chunk \in Seq(Approvable), NEW ids, ids = IdsOf(chunk)
    PROVE  /\ ids \in Seq(Stage!Id)
           /\ \A k \in DOMAIN ids : \E c \in 1..Len(chunk) : ids[k] = Stage!StableId(chunk[c])
           /\ \A c \in 1..Len(chunk) : \E k \in DOMAIN ids : ids[k] = Stage!StableId(chunk[c])
           /\ \A k, l \in DOMAIN ids : ids[k] = ids[l] => k = l
<1>1. PICK S : S = {Stage!StableId(j) : j \in Stage!Range(chunk)}
  OBVIOUS
<1>2. PICK n \in Nat : n = Len(chunk)
  OBVIOUS
<1>3. DOMAIN chunk = 1..n /\ \A c \in 1..n : chunk[c] \in Approvable /\ Stage!StableId(chunk[c]) \in Stage!Id
  BY <1>2 DEF Approvable
<1>4. /\ \A c \in 1..n : Stage!StableId(chunk[c]) \in S
      /\ \A i \in S : i \in Stage!Id /\ \E c \in 1..n : i = Stage!StableId(chunk[c])
  BY <1>1, <1>3 DEF Stage!Range
<1>5. IsFiniteSet(S)
  <2>1. PICK f : f = [c \in 1..n |-> Stage!StableId(chunk[c])]
    OBVIOUS
  <2>2. f \in Surjection(1..n, S)
    BY <1>4, <2>1 DEF Surjection
  <2>3. ExistsSurjection(1..n, S)
    BY <2>2 DEF ExistsSurjection
  <2> QED
    BY <2>3, FS_NatSurjection
<1>6. PICK m \in Nat : m = Cardinality(S)
  BY <1>5, FS_CardinalityType
<1>7. PICK g : g \in [1..m -> S] /\ Stage!IsInjective(g)
  <2>1. Bijection(1..m, S) # {}
    BY <1>5, <1>6, FS_CardinalityType DEF ExistsBijection
  <2> QED
    BY <2>1 DEF Bijection, Injection, IsInjective, Stage!IsInjective
<1>8. Stage!Cardinality(S) = m
  <2>1. Stage!Cardinality(S) = Cardinality(S)
    BY Zenon DEF Stage!Cardinality, Cardinality
  <2> QED
    BY <1>6, <2>1
<1>9. ids = CHOOSE f \in [1..m -> S] : Stage!IsInjective(f)
  BY <1>1, <1>8 DEF IdsOf, Stage!SetToSeq
<1>10. ids \in [1..m -> S] /\ Stage!IsInjective(ids)
  BY <1>7, <1>9
<1>11. ids \in Injection(1..m, S)
  BY <1>10 DEF Injection, IsInjective, Stage!IsInjective
<1>12. IsFiniteSet(1..m) /\ Cardinality(1..m) = m
  <2>1. 1 \in Int /\ m \in Int
    OBVIOUS
  <2>2. IsFiniteSet(1..m) /\ Cardinality(1..m) = IF 1 > m THEN 0 ELSE m - 1 + 1
    BY ONLY <2>1, FS_Interval
  <2> QED
    BY <2>2
<1>13. ids \in Surjection(1..m, S)
  BY <1>5, <1>6, <1>11, <1>12, FS_Injection
<1>14. \A i \in S : \E k \in 1..m : ids[k] = i
  BY <1>13 DEF Surjection
<1>15. DOMAIN ids = 1..m /\ ids \in Seq(Stage!Id)
  <2>1. ids \in [1..m -> Stage!Id]
    BY <1>4, <1>10
  <2> QED
    BY <2>1
<1> QED
  BY <1>2, <1>4, <1>10, <1>14, <1>15 DEF Stage!IsInjective

\* The index never goes back, takes no more than it is given, and all of that.
LEMMA IndexAfterEffect ==
    ASSUME NEW items \in SUBSET Stage!Entry, IsFiniteSet(items), shown \in [Stage!Id -> Nat],
           NEW after, after = Stage!IndexAfter(items)
    PROVE  /\ after \in [Stage!Id -> Nat] /\ \A i \in Stage!Id : after[i] >= shown[i]
           /\ \A i \in Stage!Id : after[i] = shown[i] \/ \E e \in items : e.id = i /\ after[i] = e.rev
           /\ \A e \in items : after[e.id] >= e.rev
<1>1. ASSUME NEW i \in Stage!Id
      PROVE  /\ after[i] \in Nat /\ after[i] >= shown[i]
             /\ after[i] = shown[i] \/ \E e \in items : e.id = i /\ after[i] = e.rev
             /\ \A e \in items : e.id = i => after[i] >= e.rev
  <2>1. PICK E : E = {x \in items : x.id = i}
    OBVIOUS
  <2>2. PICK R : R = {e.rev : e \in E}
    OBVIOUS
  <2>3. IsFiniteSet(E)
    BY <2>1, FS_Subset
  <2>4. IsFiniteSet(R)
    <3>1. PICK f : f = [e \in E |-> e.rev]
      OBVIOUS
    <3>2. f \in Surjection(E, R)
      BY <2>2, <3>1 DEF Surjection
    <3> QED
      BY <2>3, <3>2, FS_Surjection
  <2>5. IsFiniteSet({shown[i]} \cup R)
    <3>1. IsFiniteSet(R \cup {shown[i]})
      BY <2>4, FS_AddElement
    <3>2. R \cup {shown[i]} = {shown[i]} \cup R
      OBVIOUS
    <3> QED
      BY ONLY <3>1, <3>2
  <2>6. R \subseteq Nat /\ shown[i] \in Nat
    BY <2>1, <2>2 DEF Stage!Entry
  <2>7. PICK T : T = {shown[i]} \cup R
    OBVIOUS
  <2>8. T \subseteq Nat /\ T # {} /\ IsFiniteSet(T)
    BY <2>5, <2>6, <2>7
  <2>9. \E n \in T : \A m \in T : n >= m
    BY <2>8, GreatestOfFinite
  <2>10. Stage!Max(T) \in T /\ \A m \in T : Stage!Max(T) >= m
    BY <2>9 DEF Stage!Max
  <2>11. after[i] = Stage!Max(T)
    BY <2>1, <2>2, <2>7 DEF Stage!IndexAfter
  <2>12. \A e \in items : e.id = i => e.rev \in T
    BY <2>1, <2>2, <2>7
  <2> QED
    BY <2>1, <2>2, <2>7, <2>8, <2>10, <2>11, <2>12
<1>2. after = [i \in Stage!Id |-> after[i]]
  BY DEF Stage!IndexAfter
<1>3. \A e \in items : e.id \in Stage!Id
  BY DEF Stage!Entry
<1> QED
  BY <1>1, <1>2, <1>3

LEMMA FiniteRange ==
    ASSUME NEW S, NEW s \in Seq(S)
    PROVE  /\ Stage!Range(s) \in SUBSET S /\ IsFiniteSet(Stage!Range(s))
           /\ \A x \in Stage!Range(s) : \E k \in DOMAIN s : s[k] = x
           /\ \A k \in DOMAIN s : s[k] \in Stage!Range(s)
<1>1. PICK n : n = Len(s) /\ n \in Nat /\ DOMAIN s = 1..n /\ \A k \in 1..n : s[k] \in S
  OBVIOUS
<1>2. /\ \A x \in Stage!Range(s) : \E k \in 1..n : s[k] = x
      /\ \A k \in 1..n : s[k] \in Stage!Range(s)
  BY <1>1 DEF Stage!Range
<1>3. PICK f : f = [k \in 1..n |-> s[k]]
  OBVIOUS
<1>4. f \in Surjection(1..n, Stage!Range(s))
  BY <1>2, <1>3 DEF Surjection
<1>5. IsFiniteSet(Stage!Range(s))
  BY <1>1, <1>4, FS_NatSurjection DEF ExistsSurjection
<1> QED
  BY <1>1, <1>2, <1>5

-----------------------------------------------------------------------------
(* The inductive invariant. *)

\* Jobs wait for the catalog, and confirmations for the memory, only while the stage persists;
\* a stage that is done has left nothing to the index that it could still have written.
Flow ==
    /\ todo \in Seq(Approvable)
    /\ stage # "persist" => todo = <<>> /\ written = <<>>
    /\ broken => error
    /\ stage = "done" /\ ~canceled /\ ~broken => buffer = <<>>

\* The memory is sound, and what it knows, or is about to, the catalog has.
MemoryInv ==
    /\ Unremembered \in Memory /\ written \in Seq(Confirmation) /\ documents \in Documents
    /\ \A n \in 1..Len(written) : written[n].doc.rev <= documents[written[n].id].rev
    /\ \A i \in Stage!Id : known[i].rev <= documents[i].rev

\* Nothing is in the catalog that is not known, or confirmed last.
Accounted(i) ==
    \/ documents[i].rev = known[i].rev /\ \A n \in 1..Len(written) : written[n].id # i
    \/ \E n \in 1..Len(written) : /\ written[n].id = i /\ written[n].doc = documents[i]
                                  /\ \A m \in 1..Len(written) : m > n => written[m].id # i
NothingMore == ~error => \A i \in Stage!Id : Accounted(i)

\* What is known is found, or queued, unless the index refused a write.
Searchable ==
    /\ \A i \in Stage!Id : shown[i] <= documents[i].rev
    /\ ~broken => \A i \in Stage!Id : known[i].rev <= shown[i] \/ Queued(buffer, i)

\* What was approved is in the catalog or on its way.
Approvals ==
    ~error => \A i \in due : documents[i].rev > 0 \/ \E n \in 1..Len(todo) : Stage!StableId(todo[n]) = i

StageInv == Stage!TypeOK /\ Flow /\ MemoryInv /\ NothingMore /\ Searchable /\ Approvals

\* The invariant says what the runs check.
LEMMA StageInvImplies ==
    ASSUME StageInv
    PROVE  IndexFollowsCatalog /\ ConfirmedIsIndexed /\ SuccessIsSearchable
<1>1. Stage!TypeOK /\ Flow /\ MemoryInv /\ NothingMore /\ Searchable /\ Approvals
  BY DEF StageInv
<1>2. /\ known \in [Stage!Id -> Stage!Doc] /\ documents \in [Stage!Id -> Stage!Doc] /\ shown \in [Stage!Id -> Nat]
      /\ due \subseteq Stage!Id
  BY <1>1 DEF Stage!TypeOK
<1>3. \A i \in Stage!Id : known[i].rev \in Nat /\ documents[i].rev \in Nat /\ shown[i] \in Nat
  BY <1>2 DEF Stage!Doc
<1>4. IndexFollowsCatalog
  <2>1. \A n \in DOMAIN buffer : buffer[n].rev = known[buffer[n].id].rev
    <3>1. Unremembered.known = known /\ Unremembered.buffer = buffer
      BY DEF Unremembered
    <3> QED
      BY <1>1, <3>1 DEF MemoryInv, Memory
  <2> QED
    BY <1>1, <2>1 DEF IndexFollowsCatalog, Stage!IndexFollowsCatalog, Searchable
<1>5. ASSUME stage = "done", ~broken, ~canceled PROVE \A i \in Stage!Id : known[i].rev <= shown[i]
  <2>1. buffer = <<>>
    BY <1>1, <1>5 DEF Flow
  <2>2. \A i \in Stage!Id : ~Queued(buffer, i)
    BY <2>1 DEF Queued
  <2> QED
    BY <1>1, <1>5, <2>2 DEF Searchable
<1>6. ConfirmedIsIndexed
  BY <1>3, <1>5 DEF ConfirmedIsIndexed, Stage!ConfirmedIsIndexed
<1>7. ASSUME stage = "done", ~error, ~canceled
      PROVE  /\ \A i \in due : documents[i].rev > 0
             /\ \A i \in Stage!Id : shown[i] = documents[i].rev
  <2>1. ~broken /\ todo = <<>> /\ written = <<>>
    BY <1>1, <1>7 DEF Flow
  <2>2. (\A n \in 1..Len(written) : FALSE) /\ (\A n \in 1..Len(todo) : FALSE)
    BY <2>1
  <2>3. \A i \in due : documents[i].rev > 0
    BY <1>1, <1>7, <2>2 DEF Approvals
  <2>4. \A i \in Stage!Id : documents[i].rev = known[i].rev
    BY <1>1, <1>7, <2>2 DEF NothingMore, Accounted
  <2>5. \A i \in Stage!Id : known[i].rev <= shown[i] /\ shown[i] <= documents[i].rev
    BY <1>1, <1>5, <1>7, <2>1 DEF Searchable
  <2> QED
    BY <1>3, <2>3, <2>4, <2>5
<1>8. SuccessIsSearchable
  BY <1>7 DEF SuccessIsSearchable, Stage!SuccessIsSearchable
<1> QED
  BY <1>4, <1>6, <1>8

LEMMA StageInvInit ==
    ASSUME Stage!Init PROVE StageInv
<1> USE StageConstants DEF Stage!Init
<1>1. Stage!NoDoc \in Stage!Doc /\ Stage!NoDoc.rev = 0
  <2>1. (CHOOSE c \in Copies : TRUE) \in Stage!Posting
    OBVIOUS
  <2> QED
    BY <2>1 DEF Stage!NoDoc, Stage!Doc
<1>2. known \in [Stage!Id -> Stage!Doc] /\ documents = known /\ \A i \in Stage!Id : known[i].rev = 0
  BY <1>1
<1>3. flushed \in [Stage!Key -> Stage!Id \cup {Stage!NoId}] /\ \A k \in Stage!Key : flushed[k] = Stage!NoId
  OBVIOUS
<1>4. shown \in [Stage!Id -> Nat] /\ \A i \in Stage!Id : shown[i] = 0
  OBVIOUS
<1>5. Stage!TypeOK
  <2>1. \A S : <<>> \in Seq(S)
    OBVIOUS
  <2>2. Len(jobs) = 0 /\ Len(window) = 0 /\ Len(todo) = 0 /\ seen \in [Stage!Key -> 0..Len(jobs)]
    OBVIOUS
  <2>3. 0 < ClassifyBatch /\ 0 <= ClassifyBatch /\ count \in 0..MaxReceived
    OBVIOUS
  <2>4. canceled \in BOOLEAN /\ error \in BOOLEAN /\ ended \in BOOLEAN /\ broken \in BOOLEAN
    OBVIOUS
  <2>5. jobs = <<>> /\ window = <<>> /\ todo = <<>> /\ written = <<>> /\ buffer = <<>> /\ due = {} /\ stage = "receive"
    OBVIOUS
  <2> QED
    BY ONLY <1>2, <1>3, <1>4, <2>1, <2>2, <2>3, <2>4, <2>5 DEF Stage!TypeOK
<1>6. Len(written) = 0 /\ Len(todo) = 0 /\ \A n \in 1..0 : FALSE
  OBVIOUS
<1>7. documents \in Documents
  BY <1>2 DEF Documents, Identified
<1>8. Unremembered \in Memory
  <2>1. Unremembered = [known |-> known, flushed |-> flushed, buffer |-> <<>>]
    BY DEF Unremembered
  <2>2. <<>> \in Seq(Stage!Entry) /\ \A n \in DOMAIN <<>> : FALSE
    OBVIOUS
  <2> QED
    BY <1>2, <1>3, <1>7, <2>1, <2>2 DEF Memory
<1>9. MemoryInv
  <2>1. written \in Seq(Confirmation)
    OBVIOUS
  <2> QED
    BY <1>2, <1>6, <1>7, <1>8, <2>1 DEF MemoryInv
<1>10. Flow
  <2>1. todo \in Seq(Approvable)
    OBVIOUS
  <2> QED
    BY <2>1 DEF Flow
<1>11. NothingMore
  BY <1>2, <1>6 DEF NothingMore, Accounted
<1>12. Searchable
  BY <1>2, <1>4 DEF Searchable
<1>13. Approvals
  BY DEF Approvals
<1> QED
  BY <1>5, <1>9, <1>10, <1>11, <1>12, <1>13 DEF StageInv

\* What an action leaves alone stays true.
LEMMA MemoryStays ==
    ASSUME MemoryInv, UNCHANGED <<known, flushed, buffer, written, documents>>
    PROVE  MemoryInv'
BY DEF MemoryInv, Unremembered

LEMMA NothingMoreStays ==
    ASSUME NothingMore, UNCHANGED <<known, written, documents>>, error => error'
    PROVE  NothingMore'
BY DEF NothingMore, Accounted

LEMMA SearchableStays ==
    ASSUME Searchable, UNCHANGED <<known, shown, buffer, documents>>, broken => broken'
    PROVE  Searchable'
BY DEF Searchable, Queued

LEMMA ApprovalsStay ==
    ASSUME Approvals, UNCHANGED <<due, todo, documents>>, error => error'
    PROVE  Approvals'
BY DEF Approvals

LEMMA StageCancel ==
    ASSUME StageInv, Stage!Cancel
    PROVE  StageInv'
<1>1. Stage!TypeOK /\ Flow /\ MemoryInv /\ NothingMore /\ Searchable /\ Approvals
  BY DEF StageInv
<1>2. /\ canceled' = TRUE /\ stage # "done"
      /\ UNCHANGED <<stage, error, count, ended, jobs, seen, window, flushed, known, todo, written, buffer,
                     documents, shown, due, broken>>
  BY DEF Stage!Cancel, Stage!dedup
<1>3. Stage!TypeOK'
  BY <1>1, <1>2 DEF Stage!TypeOK
<1>4. Flow'
  BY <1>1, <1>2 DEF Flow
<1> QED
  BY <1>1, <1>2, <1>3, <1>4, MemoryStays, NothingMoreStays, SearchableStays, ApprovalsStay DEF StageInv

LEMMA StageNoticeCancel ==
    ASSUME StageInv, Stage!NoticeCancel
    PROVE  StageInv'
<1>1. Stage!TypeOK /\ Flow /\ MemoryInv /\ NothingMore /\ Searchable /\ Approvals
  BY DEF StageInv
<1>2. /\ error' = TRUE /\ count < MaxReceived /\ count' = count + 1
      /\ UNCHANGED <<stage, canceled, ended, jobs, seen, window, flushed, known, todo, written, buffer,
                     documents, shown, due, broken>>
  BY DEF Stage!NoticeCancel, Stage!dedup
<1>3. count' \in 0..MaxReceived
  BY <1>1, <1>2, StageConstants DEF Stage!TypeOK
<1>4. Stage!TypeOK'
  BY <1>1, <1>2, <1>3 DEF Stage!TypeOK
<1>5. Flow'
  BY <1>1, <1>2 DEF Flow
<1> QED
  BY <1>1, <1>2, <1>4, <1>5, MemoryStays, NothingMoreStays, SearchableStays, ApprovalsStay DEF StageInv

LEMMA OneHit ==
    ASSUME NEW c, NEW hits, NEW k \in Stage!FirstHit(c, hits)
    PROVE  k \in hits
BY DEF Stage!FirstHit

\* What a late duplicate duplicates has an identity, and keeps it.
LEMMA StageLateDuplicate ==
    ASSUME StageInv, NEW c \in Copies, Stage!LateDuplicate(c)
    PROVE  StageInv'
<1>1. Stage!TypeOK /\ Flow /\ MemoryInv /\ NothingMore /\ Searchable /\ Approvals
  BY DEF StageInv
<1>2. /\ stage = "receive" /\ count < MaxReceived /\ count' = count + 1 /\ stage' = "persist"
      /\ UNCHANGED <<canceled, error, ended, jobs, seen, window, flushed, known, written, buffer,
                     documents, shown, due, broken>>
  BY DEF Stage!LateDuplicate, Stage!Receiving, Stage!dedup
<1>3. PICK k \in Stage!FlushedKeys : todo' = <<Stage!MergeLate(known[flushed[k]].job, c)>>
  BY OneHit DEF Stage!LateDuplicate
<1>4. k \in Stage!Key /\ flushed[k] # Stage!NoId
  BY <1>3 DEF Stage!FlushedKeys
<1>5. PICK old : old = known[flushed[k]].job /\ old \in Stage!Posting /\ Stage!StableId(old) # Stage!NoId
  <2>1. PICK i : i = flushed[k] /\ i \in Stage!Id
    BY <1>1, <1>4 DEF Stage!TypeOK
  <2>2. known[i] \in Stage!Doc
    BY <1>1, <2>1 DEF Stage!TypeOK
  <2>3. Unremembered.known = known /\ Unremembered.flushed = flushed
    BY DEF Unremembered
  <2>4. known[i].rev > 0 /\ Identified(known)
    BY <1>1, <1>4, <2>1, <2>3 DEF MemoryInv, Memory, Documents
  <2> QED
    BY <2>1, <2>2, <2>4 DEF Identified, Stage!Doc
<1>6. PICK j : j = Stage!MergeLate(old, c) /\ j \in Approvable
  <2>1. c \in Stage!Posting
    BY StageConstants
  <2> QED
    BY <1>5, <2>1, MergeLateType DEF Approvable
<1>7. todo' = <<j>> /\ todo' \in Seq(Approvable) /\ Len(todo') = 1
  BY <1>3, <1>5, <1>6
<1>8. todo' \in Seq(Stage!Posting) /\ Len(todo') <= ClassifyBatch
  <2>1. j \in Stage!Posting
    BY <1>6 DEF Approvable
  <2> QED
    BY <1>7, <2>1, StageConstants
<1>9. count' \in 0..MaxReceived
  BY <1>1, <1>2, StageConstants DEF Stage!TypeOK
<1>10. Stage!TypeOK'
  BY <1>1, <1>2, <1>8, <1>9 DEF Stage!TypeOK
<1>11. Flow'
  BY <1>1, <1>2, <1>7 DEF Flow
<1>12. Approvals'
  <2>1. todo = <<>> /\ Len(todo) = 0 /\ \A n \in 1..0 : FALSE
    BY <1>1, <1>2 DEF Flow
  <2> QED
    BY <1>1, <1>2, <2>1 DEF Approvals
<1> QED
  BY <1>1, <1>2, <1>10, <1>11, <1>12, MemoryStays, NothingMoreStays, SearchableStays DEF StageInv

LEMMA IndexSeenType ==
    ASSUME NEW n \in Nat, NEW p \in 0..n, NEW j, seen \in [Stage!Key -> 0..n]
    PROVE  Stage!IndexSeen(p, j) \in [Stage!Key -> 0..n]
BY DEF Stage!IndexSeen

LEMMA StageWindowDuplicate ==
    ASSUME StageInv, NEW c \in Copies, Stage!WindowDuplicate(c)
    PROVE  StageInv'
<1>1. Stage!TypeOK /\ Flow /\ MemoryInv /\ NothingMore /\ Searchable /\ Approvals
  BY DEF StageInv
<1>2. /\ count < MaxReceived /\ count' = count + 1
      /\ UNCHANGED <<stage, canceled, error, ended, window, flushed, known, todo, written, buffer,
                     documents, shown, due, broken>>
  BY DEF Stage!WindowDuplicate, Stage!Receiving
<1>3. PICK k \in Stage!SeenKeys :
        /\ jobs' = [jobs EXCEPT ![seen[k]] = Stage!Merge(jobs[seen[k]], c)]
        /\ seen' = Stage!IndexSeen(seen[k], Stage!Merge(jobs[seen[k]], c))
  BY OneHit DEF Stage!WindowDuplicate
<1>4. PICK n : n = Len(jobs) /\ n \in Nat /\ DOMAIN jobs = 1..n /\ jobs \in Seq(Stage!Posting) /\ jobs \in [1..n -> Stage!Posting]
  <2>1. jobs \in Seq(Stage!Posting)
    BY <1>1 DEF Stage!TypeOK
  <2>2. jobs \in [1..Len(jobs) -> Stage!Posting] /\ Len(jobs) \in Nat /\ DOMAIN jobs = 1..Len(jobs)
    BY <2>1
  <2> QED
    BY <2>1, <2>2
<1>5. PICK p : p = seen[k] /\ p \in 0..n /\ p \in 1..n
  BY <1>1, <1>3, <1>4 DEF Stage!TypeOK, Stage!SeenKeys
<1>6. PICK merged : merged = Stage!Merge(jobs[p], c) /\ merged \in Stage!Posting
  <2>1. jobs[p] \in Stage!Posting /\ c \in Stage!Posting
    BY <1>4, <1>5, StageConstants
  <2> QED
    BY <2>1, MergeType
<1>7. jobs' = [jobs EXCEPT ![p] = merged] /\ seen' = Stage!IndexSeen(p, merged)
  BY <1>3, <1>5, <1>6
<1>8. jobs' \in [1..n -> Stage!Posting]
  BY <1>4, <1>5, <1>6, <1>7
<1>9. jobs' \in Seq(Stage!Posting) /\ Len(jobs') = n
  BY <1>4, <1>8
<1>10. seen' \in [Stage!Key -> 0..n]
  BY <1>1, <1>4, <1>5, <1>7, IndexSeenType DEF Stage!TypeOK
<1>11. count' \in 0..MaxReceived
  BY <1>1, <1>2, StageConstants DEF Stage!TypeOK
<1>12. Stage!TypeOK'
  BY <1>1, <1>2, <1>4, <1>9, <1>10, <1>11 DEF Stage!TypeOK
<1>13. Flow'
  BY <1>1, <1>2 DEF Flow
<1> QED
  BY <1>1, <1>2, <1>12, <1>13, MemoryStays, NothingMoreStays, SearchableStays, ApprovalsStay DEF StageInv

\* The window goes to the catalog: what is due is on its way.
LEMMA FlushEffect ==
    ASSUME NEW objs \in Seq(Stage!Posting), NEW ptrs \in Seq(1..Len(objs)), Len(ptrs) <= ClassifyBatch,
           Stage!Flush(ptrs, objs), due \subseteq Stage!Id
    PROVE  /\ window' = <<>> /\ stage' = "persist" /\ todo' \in Seq(Approvable) /\ todo' \in Seq(Stage!Posting)
           /\ Len(todo') <= ClassifyBatch /\ due' \subseteq Stage!Id
           /\ \A i \in due' : i \in due \/ \E n \in 1..Len(todo') : Stage!StableId(todo'[n]) = i
<1>1. PICK sent : sent = Stage!Approved(ptrs, objs)
  OBVIOUS
<1>2. sent \in Seq(Approvable) /\ Len(sent) <= Len(ptrs)
  BY <1>1, ApprovedJobs
<1>3. window' = <<>> /\ stage' = "persist" /\ todo' = sent /\ due' = due \cup {Stage!StableId(j) : j \in Stage!Range(sent)}
  BY <1>1 DEF Stage!Flush
<1>4. /\ DOMAIN sent = 1..Len(sent) /\ Len(sent) \in Nat
      /\ Stage!Range(sent) \in SUBSET Approvable /\ \A x \in Stage!Range(sent) : \E k \in DOMAIN sent : sent[k] = x
  BY <1>2, FiniteRange
<1>5. sent \in Seq(Stage!Posting)
  <2>1. Approvable \subseteq Stage!Posting
    BY DEF Approvable
  <2>2. \A n \in 1..Len(sent) : sent[n] \in Stage!Posting
    BY <1>2, <2>1
  <2> QED
    BY <1>2, <1>4, <2>2
<1>6. Len(sent) <= ClassifyBatch
  BY <1>2, <1>4, StageConstants
<1>7. due' \subseteq Stage!Id
  BY <1>3, <1>4 DEF Approvable
<1>8. \A i \in due' : i \in due \/ \E n \in 1..Len(sent) : Stage!StableId(sent[n]) = i
  BY <1>3, <1>4
<1> QED
  BY <1>2, <1>3, <1>5, <1>6, <1>7, <1>8

LEMMA StageNewJob ==
    ASSUME StageInv, NEW c \in Copies, Stage!NewJob(c)
    PROVE  StageInv'
<1>1. Stage!TypeOK /\ Flow /\ MemoryInv /\ NothingMore /\ Searchable /\ Approvals
  BY DEF StageInv
<1>2. /\ stage = "receive" /\ count < MaxReceived /\ count' = count + 1 /\ jobs' = Append(jobs, c)
      /\ UNCHANGED <<canceled, error, ended, flushed, known, written, buffer, documents, shown, broken>>
  BY DEF Stage!NewJob, Stage!Receiving
<1>3. PICK n, p, pushed, grown : /\ n = Len(jobs) /\ p = n + 1 /\ pushed = Append(window, p) /\ grown = Append(jobs, c)
  OBVIOUS
<1>4. /\ n \in Nat /\ jobs \in Seq(Stage!Posting) /\ window \in Seq(1..n) /\ Len(window) \in Nat
      /\ Len(window) < ClassifyBatch /\ seen \in [Stage!Key -> 0..n]
  <2>1. jobs \in Seq(Stage!Posting) /\ window \in Seq(1..n) /\ Len(window) < ClassifyBatch /\ seen \in [Stage!Key -> 0..n]
    BY <1>1, <1>3 DEF Stage!TypeOK
  <2> QED
    BY <1>3, <2>1
<1>5. grown \in Seq(Stage!Posting) /\ Len(grown) = p
  BY <1>3, <1>4, StageConstants
<1>6. p \in Nat /\ p \in 0..p /\ p \in 1..p /\ 1..n \subseteq 1..p /\ 0..n \subseteq 0..p
  BY <1>3, <1>4
<1>7. pushed \in Seq(1..p) /\ Len(pushed) = Len(window) + 1
  <2>2. window \in Seq(1..p)
    <3>1. PICK m : m = Len(window) /\ m \in Nat /\ window \in [1..m -> 1..n]
      BY SMTT(60), <1>4
    <3>2. window \in [1..m -> 1..p]
      BY <1>6, <3>1
    <3>3. m \in Nat
      BY <3>1
    <3> QED
      BY ONLY <3>2, <3>3, FunctionIsSequence
  <2> QED
    BY <1>3, <1>6, <2>2
<1>8. seen \in [Stage!Key -> 0..p]
  BY <1>4, <1>6
<1>9. seen' = Stage!IndexSeen(p, c)
  BY <1>3 DEF Stage!NewJob
<1>10. seen' \in [Stage!Key -> 0..p]
  BY <1>6, <1>8, <1>9, IndexSeenType
<1>11. count' \in 0..MaxReceived
  BY <1>1, <1>2, StageConstants DEF Stage!TypeOK
<1>12. todo = <<>> /\ written = <<>> /\ Len(todo) = 0 /\ due \subseteq Stage!Id
  BY <1>1, <1>2 DEF Flow, Stage!TypeOK
<1>13. /\ window' \in Seq(1..p) /\ Len(window') < ClassifyBatch /\ stage' \in {"receive", "persist"}
       /\ todo' \in Seq(Approvable) /\ todo' \in Seq(Stage!Posting) /\ Len(todo') <= ClassifyBatch
       /\ stage' # "persist" => todo' = <<>>
       /\ due' \subseteq Stage!Id
       /\ \A i \in due' : i \in due \/ \E m \in 1..Len(todo') : Stage!StableId(todo'[m]) = i
  <2>1. CASE Len(window) + 1 = ClassifyBatch
    <3>1. Stage!Flush(pushed, grown)
      BY <1>3, <2>1 DEF Stage!NewJob
    <3>2. Len(pushed) <= ClassifyBatch /\ pushed \in Seq(1..Len(grown))
      BY <1>4, <1>5, <1>7, <2>1, StageConstants
    <3>3. /\ window' = <<>> /\ stage' = "persist" /\ todo' \in Seq(Approvable) /\ todo' \in Seq(Stage!Posting)
          /\ Len(todo') <= ClassifyBatch /\ due' \subseteq Stage!Id
          /\ \A i \in due' : i \in due \/ \E m \in 1..Len(todo') : Stage!StableId(todo'[m]) = i
      BY ONLY <1>5, <1>12, <3>1, <3>2, FlushEffect
    <3>4. <<>> \in Seq(1..p) /\ Len(<<>>) < ClassifyBatch
      BY StageConstants
    <3> QED
      BY <3>3, <3>4
  <2>2. CASE Len(window) + 1 # ClassifyBatch
    <3>1. window' = pushed /\ UNCHANGED <<stage, todo, due>>
      BY <1>3, <2>2 DEF Stage!NewJob
    <3>2. Len(pushed) < ClassifyBatch
      BY <1>4, <1>7, <2>2, StageConstants
    <3>3. todo' \in Seq(Approvable) /\ todo' \in Seq(Stage!Posting) /\ Len(todo') <= ClassifyBatch
      BY <1>1, <3>1 DEF Flow, Stage!TypeOK
    <3> QED
      BY <1>2, <1>7, <1>12, <3>1, <3>2, <3>3
  <2> QED
    BY <2>1, <2>2
<1>14. jobs' \in Seq(Stage!Posting) /\ Len(jobs') = p
  BY <1>2, <1>3, <1>5
<1>15. Stage!TypeOK'
  BY <1>1, <1>2, <1>10, <1>11, <1>13, <1>14 DEF Stage!TypeOK
<1>16. Flow'
  <2>1. stage' # "persist" => todo' = <<>> /\ written' = <<>>
    BY <1>2, <1>12, <1>13
  <2>2. stage' # "done" /\ todo' \in Seq(Approvable)
    BY <1>13
  <2>3. broken' => error'
    BY <1>1, <1>2 DEF Flow
  <2> QED
    BY <2>1, <2>2, <2>3 DEF Flow
<1>17. Approvals'
  <2>1. \A m \in 1..Len(todo) : FALSE
    BY <1>12
  <2> QED
    BY <1>1, <1>2, <1>13, <2>1 DEF Approvals
<1> QED
  BY <1>1, <1>2, <1>15, <1>16, <1>17, MemoryStays, NothingMoreStays, SearchableStays DEF StageInv

LEMMA StageEndOfInput ==
    ASSUME StageInv, Stage!EndOfInput
    PROVE  StageInv'
<1>1. Stage!TypeOK /\ Flow /\ MemoryInv /\ NothingMore /\ Searchable /\ Approvals
  BY DEF StageInv
<1>2. /\ stage = "receive" /\ ended' = TRUE
      /\ UNCHANGED <<canceled, count, jobs, seen, flushed, known, written, buffer, documents, shown, broken>>
  BY DEF Stage!EndOfInput
<1>3. todo = <<>> /\ written = <<>> /\ Len(todo) = 0 /\ due \subseteq Stage!Id
  BY <1>1, <1>2 DEF Flow, Stage!TypeOK
<1>4. CASE Stage!Flush(window, jobs) /\ UNCHANGED error
  <2>1. jobs \in Seq(Stage!Posting) /\ window \in Seq(1..Len(jobs)) /\ Len(window) < ClassifyBatch
    BY <1>1 DEF Stage!TypeOK
  <2>2. Len(window) <= ClassifyBatch
    BY <2>1, StageConstants
  <2>3. /\ window' = <<>> /\ stage' = "persist" /\ todo' \in Seq(Approvable) /\ todo' \in Seq(Stage!Posting)
        /\ Len(todo') <= ClassifyBatch /\ due' \subseteq Stage!Id
        /\ \A i \in due' : i \in due \/ \E m \in 1..Len(todo') : Stage!StableId(todo'[m]) = i
    BY <1>3, <1>4, <2>1, <2>2, FlushEffect
  <2>4. window' \in Seq(1..Len(jobs)) /\ Len(window') < ClassifyBatch
    BY <2>3, StageConstants
  <2>5. Stage!TypeOK'
    BY <1>1, <1>2, <1>4, <2>3, <2>4 DEF Stage!TypeOK
  <2>6. Flow'
    BY <1>1, <1>2, <1>4, <2>3 DEF Flow
  <2>7. Approvals'
    <3>1. \A m \in 1..Len(todo) : FALSE
      BY <1>3
    <3> QED
      BY <1>1, <1>2, <1>4, <2>3, <3>1 DEF Approvals
  <2> QED
    BY <1>1, <1>2, <1>4, <2>5, <2>6, <2>7, MemoryStays, NothingMoreStays, SearchableStays DEF StageInv
<1>5. CASE error' = (error \/ (canceled /\ window # <<>>)) /\ stage' = "final" /\ UNCHANGED <<window, todo, due>>
  <2>1. error => error'
    BY <1>5
  <2>2. error' \in BOOLEAN
    BY <1>5
  <2>3. Stage!TypeOK'
    BY <1>1, <1>2, <1>5, <2>2 DEF Stage!TypeOK
  <2>4. Flow'
    BY <1>1, <1>2, <1>3, <1>5, <2>1 DEF Flow
  <2> QED
    BY <1>1, <1>2, <1>5, <2>1, <2>3, <2>4, MemoryStays, NothingMoreStays, SearchableStays, ApprovalsStay DEF StageInv
<1> QED
  BY <1>4, <1>5 DEF Stage!EndOfInput

\* A chunk is saved, and its documents are confirmed after those of the earlier chunks.
LEMMA StageSaveChunk ==
    ASSUME StageInv, Stage!SaveChunk
    PROVE  StageInv'
<1>1. Stage!TypeOK /\ Flow /\ MemoryInv /\ NothingMore /\ Searchable /\ Approvals
  BY DEF StageInv
<1>2. /\ stage = "persist" /\ todo # <<>>
      /\ UNCHANGED <<stage, canceled, error, count, ended, jobs, seen, window, flushed, known, buffer, shown, due, broken>>
  BY DEF Stage!SaveChunk, Stage!dedup
<1>3. PICK chunk, rest, saved, ids, docs :
        /\ chunk = Stage!FirstOf(todo, PersistBatch) /\ rest = Stage!After(todo, PersistBatch)
        /\ saved = Stage!SaveAll(chunk) /\ ids = IdsOf(chunk)
        /\ docs = [i \in DOMAIN ids |-> [id |-> ids[i], doc |-> saved[ids[i]]]]
  OBVIOUS
<1>4. documents' = saved /\ written' = written \o docs /\ todo' = rest
  BY <1>3 DEF Stage!SaveChunk, IdsOf
<1>5. /\ todo \in Seq(Approvable) /\ todo \in Seq(Stage!Posting) /\ Len(todo) <= ClassifyBatch
      /\ documents \in Documents /\ written \in Seq(Confirmation)
  BY <1>1 DEF Stage!TypeOK, Flow, MemoryInv
<1>6. /\ chunk \in Seq(Approvable) /\ rest \in Seq(Approvable) /\ Len(rest) <= Len(todo)
      /\ \A i \in DOMAIN todo : \/ \E k \in DOMAIN chunk : chunk[k] = todo[i]
                                \/ \E k \in DOMAIN rest : rest[k] = todo[i]
  BY <1>3, <1>5, StageConstants, Parted
<1>7. rest \in Seq(Stage!Posting)
  BY <1>3, <1>5, StageConstants, Parted
<1>8. /\ saved \in Documents /\ \A i \in Stage!Id : saved[i].rev >= documents[i].rev
      /\ \A k \in 1..Len(chunk) : saved[Stage!StableId(chunk[k])].rev > 0
      /\ \A i \in Stage!Id : (\A k \in 1..Len(chunk) : Stage!StableId(chunk[k]) # i) => saved[i] = documents[i]
  BY <1>3, <1>5, <1>6, SavedDocuments
<1>9. /\ ids \in Seq(Stage!Id)
      /\ \A k \in DOMAIN ids : \E c \in 1..Len(chunk) : ids[k] = Stage!StableId(chunk[c])
      /\ \A c \in 1..Len(chunk) : \E k \in DOMAIN ids : ids[k] = Stage!StableId(chunk[c])
      /\ \A k, l \in DOMAIN ids : ids[k] = ids[l] => k = l
  <2>1. chunk \in Seq(Approvable)
    BY <1>6
  <2>2. ids = IdsOf(chunk)
    BY <1>3
  <2> QED
    BY ONLY <2>1, <2>2, IdsOfChunk
<1>10. PICK b : b = Len(ids) /\ b \in Nat /\ DOMAIN ids = 1..b /\ \A k \in 1..b : ids[k] \in Stage!Id
  BY <1>9
<1>11. saved \in [Stage!Id -> Stage!Doc] /\ Identified(saved) /\ documents \in [Stage!Id -> Stage!Doc]
  BY <1>5, <1>8 DEF Documents
<1>12. \A i \in Stage!Id : saved[i] \in Stage!Doc /\ saved[i].rev \in Nat /\ documents[i].rev \in Nat
  BY <1>11 DEF Stage!Doc
<1>13. ASSUME NEW k \in 1..b
       PROVE  docs[k] \in Confirmation /\ docs[k].id = ids[k] /\ docs[k].doc = saved[ids[k]]
  <2>1. PICK d : d = [id |-> ids[k], doc |-> saved[ids[k]]]
    OBVIOUS
  <2>2. docs[k] = d /\ d.id = ids[k] /\ d.doc = saved[ids[k]]
    BY <1>3, <1>10, <2>1
  <2>3. saved[ids[k]].rev > 0 /\ ids[k] \in Stage!Id
    BY <1>8, <1>9, <1>10
  <2>4. Stage!StableId(saved[ids[k]].job) # Stage!NoId
    BY <1>11, <2>3 DEF Identified
  <2>5. d \in [id : Stage!Id, doc : Stage!Doc]
    BY <1>12, <2>1, <2>3
  <2> QED
    BY <2>2, <2>3, <2>4, <2>5 DEF Confirmation
<1>14. docs \in Seq(Confirmation) /\ Len(docs) = b
  <2>1. docs \in [1..b -> Confirmation]
    BY <1>3, <1>10, <1>13
  <2> QED
    BY <1>10, <2>1
<1>15. PICK all, a : all = written \o docs /\ a = Len(written)
  OBVIOUS
<1>16. /\ all \in Seq(Confirmation) /\ Len(all) = a + b /\ a \in Nat
       /\ \A n \in 1..a : all[n] = written[n]
       /\ \A k \in 1..b : a + k \in 1..(a + b) /\ all[a + k] = docs[k]
       /\ \A n \in 1..(a + b) : n \in 1..a \/ \E k \in 1..b : n = a + k
  <2>1. written \in Seq(Confirmation) /\ docs \in Seq(Confirmation)
    BY <1>5, <1>14
  <2>2. b = Len(docs) /\ all = written \o docs /\ a = Len(written)
    BY <1>14, <1>15
  <2>3. IsJoin(all, Confirmation, written, docs, a, b)
    BY ONLY <2>1, <2>2, Joined
  <2> QED
    BY ONLY <2>3 DEF IsJoin
<1>17. written' = all /\ documents' = saved
  BY <1>4, <1>15
<1>18. /\ \A n \in 1..a : all[n] = written[n] /\ n \in 1..(a + b) /\ written[n] \in Confirmation
       /\ \A k \in 1..b : all[a + k].id = ids[k] /\ all[a + k].doc = saved[ids[k]] /\ a + k \in 1..(a + b)
  <2>1. \A n \in 1..a : n \in 1..(a + b)
    BY ONLY <1>10, <1>16
  <2>2. \A n \in 1..a : written[n] \in Confirmation
    BY <1>5, <1>15
  <2>3. \A k \in 1..b : all[a + k].id = ids[k] /\ all[a + k].doc = saved[ids[k]] /\ a + k \in 1..(a + b)
    BY ONLY <1>13, <1>16
  <2> QED
    BY ONLY <1>16, <2>1, <2>2, <2>3
<1>19. Stage!TypeOK'
  <2>1. Len(rest) <= ClassifyBatch
    <3>1. Len(rest) \in Nat /\ Len(todo) \in Nat
      BY <1>5, <1>6
    <3> QED
      BY ONLY <1>5, <1>6, <3>1, StageConstants
  <2>2. all \in Seq([id : Stage!Id, doc : Stage!Doc])
    <3>1. \A d \in Confirmation : d \in [id : Stage!Id, doc : Stage!Doc]
      BY DEF Confirmation
    <3>2. all \in [1..(a + b) -> Confirmation] /\ a + b \in Nat
      BY <1>10, <1>16
    <3>3. all \in [1..(a + b) -> [id : Stage!Id, doc : Stage!Doc]]
      BY ONLY <3>1, <3>2
    <3> QED
      BY ONLY <3>2, <3>3, FunctionIsSequence
  <2> QED
    BY <1>1, <1>2, <1>4, <1>7, <1>11, <1>17, <2>1, <2>2 DEF Stage!TypeOK
<1>20. Flow'
  BY <1>1, <1>2, <1>4, <1>6 DEF Flow
<1>21. MemoryInv'
  <2>1. Unremembered' = Unremembered
    BY <1>2 DEF Unremembered
  <2>2. ASSUME NEW n \in 1..(a + b) PROVE all[n].doc.rev <= saved[all[n].id].rev
    <3>1. ASSUME n \in 1..a PROVE all[n].doc.rev <= saved[all[n].id].rev
      <4>1. written[n].doc.rev <= documents[written[n].id].rev
        BY <1>1, <1>15, <3>1 DEF MemoryInv
      <4>2. written[n].id \in Stage!Id /\ written[n].doc.rev \in Nat
        BY <1>18, <3>1 DEF Confirmation, Stage!Doc
      <4>3. written[n].doc.rev <= saved[written[n].id].rev
        BY ONLY <1>8, <1>12, <4>1, <4>2
      <4> QED
        BY <1>18, <3>1, <4>3
    <3>2. ASSUME NEW k \in 1..b, n = a + k PROVE all[n].doc.rev <= saved[all[n].id].rev
      <4>1. saved[ids[k]].rev \in Nat
        BY <1>10, <1>12
      <4>2. saved[ids[k]].rev <= saved[ids[k]].rev
        BY ONLY <4>1
      <4> QED
        BY <1>18, <3>2, <4>2
    <3> QED
      BY <1>16, <3>1, <3>2
  <2>3. \A i \in Stage!Id : known[i].rev <= saved[i].rev
    <3>1. \A i \in Stage!Id : known[i].rev \in Nat /\ known[i].rev <= documents[i].rev
      BY <1>1 DEF MemoryInv, Stage!TypeOK, Stage!Doc
    <3> QED
      BY ONLY <1>8, <1>12, <3>1
  <2>4. UNCHANGED known
    BY <1>2
  <2>5. Unremembered \in Memory
    BY <1>1 DEF MemoryInv
  <2> QED
    BY <1>8, <1>16, <1>17, <2>1, <2>2, <2>3, <2>4, <2>5 DEF MemoryInv
<1>22. NothingMore'
  <2>1. ASSUME NEW i \in Stage!Id, NEW k \in 1..b, ids[k] = i
        PROVE  \E n \in 1..(a + b) : /\ all[n].id = i /\ all[n].doc = saved[i]
                                      /\ \A m \in 1..(a + b) : m > n => all[m].id # i
    <3>1. a + k \in 1..(a + b) /\ all[a + k].id = i /\ all[a + k].doc = saved[i]
      BY <1>18, <2>1
    <3>2. ASSUME NEW m \in 1..(a + b), m > a + k PROVE all[m].id # i
      <4>1. m \notin 1..a
        BY ONLY <1>16, <1>10, <3>2, <2>1
      <4>2. PICK l : l \in 1..b /\ m = a + l
        BY <1>16, <3>2, <4>1
      <4>3. l # k
        BY ONLY <1>10, <1>16, <3>2, <4>2, <2>1
      <4>4. all[m].id = ids[l] /\ ids[l] # ids[k]
        BY <1>9, <1>10, <1>18, <4>2, <4>3
      <4> QED
        BY <2>1, <4>4
    <3> QED
      BY <3>1, <3>2
  <2>2. ASSUME NEW i \in Stage!Id, \A k \in 1..b : ids[k] # i PROVE \A n \in (1..(a + b)) \ (1..a) : all[n].id # i
    BY SMTT(60), <1>16, <1>18, <2>2
  <2>3. ASSUME NEW i \in Stage!Id, \A k \in 1..b : ids[k] # i, documents[i].rev = known[i].rev,
               \A n \in 1..a : written[n].id # i
        PROVE  saved[i].rev = known[i].rev /\ \A n \in 1..(a + b) : all[n].id # i
    <3>1. saved[i] = documents[i]
      BY <1>8, <1>9, <1>10, <2>3
    <3>2. \A n \in (1..(a + b)) \ (1..a) : all[n].id # i
      BY <2>2, <2>3
    <3> QED
      BY <1>18, <2>3, <3>1, <3>2
  <2>4. ASSUME NEW i \in Stage!Id, \A k \in 1..b : ids[k] # i, NEW n \in 1..a, written[n].id = i,
               written[n].doc = documents[i], \A m \in 1..a : m > n => written[m].id # i
        PROVE  \E x \in 1..(a + b) : /\ all[x].id = i /\ all[x].doc = saved[i]
                                      /\ \A m \in 1..(a + b) : m > x => all[m].id # i
    <3>1. saved[i] = documents[i]
      BY <1>8, <1>9, <1>10, <2>4
    <3>2. \A m \in (1..(a + b)) \ (1..a) : all[m].id # i
      BY <2>2, <2>4
    <3>3. n \in 1..(a + b) /\ all[n].id = i /\ all[n].doc = saved[i]
      BY <1>18, <2>4, <3>1
    <3>4. \A m \in 1..(a + b) : m > n => all[m].id # i
      BY <1>18, <2>4, <3>2
    <3> QED
      BY <3>3, <3>4
  <2>5. ASSUME NEW i \in Stage!Id, Accounted(i) PROVE Accounted(i)'
    <3>1. \/ saved[i].rev = known[i].rev /\ \A n \in 1..(a + b) : all[n].id # i
          \/ \E n \in 1..(a + b) : /\ all[n].id = i /\ all[n].doc = saved[i]
                                  /\ \A m \in 1..(a + b) : m > n => all[m].id # i
      <4>1. \/ documents[i].rev = known[i].rev /\ \A n \in 1..a : written[n].id # i
            \/ \E n \in 1..a : /\ written[n].id = i /\ written[n].doc = documents[i]
                              /\ \A m \in 1..a : m > n => written[m].id # i
        BY <1>15, <2>5 DEF Accounted
      <4> QED
        BY <2>1, <2>3, <2>4, <4>1
    <3>2. Len(written') = a + b /\ UNCHANGED known
      BY <1>2, <1>16, <1>17
    <3> QED
      BY <1>17, <3>1, <3>2 DEF Accounted
  <2> QED
    BY <1>1, <1>2, <2>5 DEF NothingMore
<1>23. Searchable'
  <2>1. \A i \in Stage!Id : shown[i] <= saved[i].rev
    <3>1. \A i \in Stage!Id : shown[i] \in Nat /\ shown[i] <= documents[i].rev
      BY <1>1 DEF Searchable, Stage!TypeOK
    <3> QED
      BY <1>8, <1>12, <3>1
  <2> QED
    BY <1>1, <1>2, <1>17, <2>1 DEF Searchable, Queued
<1>24. Approvals'
  <2>1. ASSUME NEW i \in due, documents[i].rev > 0 \/ \E n \in 1..Len(todo) : Stage!StableId(todo[n]) = i
        PROVE  saved[i].rev > 0 \/ \E n \in 1..Len(rest) : Stage!StableId(rest[n]) = i
    <3>1. i \in Stage!Id
      BY <1>1 DEF Stage!TypeOK
    <3>2. CASE documents[i].rev > 0
      BY <1>8, <1>12, <3>1, <3>2
    <3>3. ASSUME NEW n \in 1..Len(todo), Stage!StableId(todo[n]) = i
          PROVE  saved[i].rev > 0 \/ \E m \in 1..Len(rest) : Stage!StableId(rest[m]) = i
      <4>1. DOMAIN todo = 1..Len(todo) /\ DOMAIN chunk = 1..Len(chunk) /\ DOMAIN rest = 1..Len(rest)
        BY <1>5, <1>6
      <4>2. (\E k \in 1..Len(chunk) : chunk[k] = todo[n]) \/ (\E k \in 1..Len(rest) : rest[k] = todo[n])
        BY <1>6, <3>3, <4>1
      <4> QED
        BY <1>8, <3>3, <4>2
    <3> QED
      BY <2>1, <3>2, <3>3
  <2> QED
    BY <1>1, <1>2, <1>4, <1>17, <2>1 DEF Approvals
<1> QED
  BY <1>19, <1>20, <1>21, <1>22, <1>23, <1>24 DEF StageInv

\* A chunk that fails is in the catalog or not, and what is left is given up.
LEMMA StageSaveFails ==
    ASSUME StageInv, Stage!SaveFails
    PROVE  StageInv'
<1>1. Stage!TypeOK /\ Flow /\ MemoryInv /\ NothingMore /\ Searchable /\ Approvals
  BY DEF StageInv
<1>2. /\ stage = "persist" /\ error' = TRUE /\ todo' = <<>>
      /\ UNCHANGED <<stage, canceled, count, ended, jobs, seen, window, flushed, known, written, buffer, shown, due, broken>>
  BY DEF Stage!SaveFails, Stage!dedup
<1>3. PICK chunk, saved : chunk = Stage!FirstOf(todo, PersistBatch) /\ saved = Stage!SaveAll(chunk)
  OBVIOUS
<1>4. documents' = documents \/ documents' = saved
  BY <1>3 DEF Stage!SaveFails
<1>5. todo \in Seq(Approvable) /\ documents \in Documents
  BY <1>1 DEF Flow, MemoryInv
<1>6. chunk \in Seq(Approvable)
  BY <1>3, <1>5, StageConstants, Parted
<1>7. saved \in Documents /\ \A i \in Stage!Id : saved[i].rev >= documents[i].rev
  BY <1>3, <1>5, <1>6, SavedDocuments
<1>8. \A d \in Documents, i \in Stage!Id : d[i].rev \in Nat
  BY DEF Documents, Stage!Doc
<1>9. PICK docs : docs = documents' /\ docs \in Documents /\ \A i \in Stage!Id : docs[i].rev >= documents[i].rev
  BY <1>4, <1>5, <1>7, <1>8
<1>10. \A i \in Stage!Id : docs[i].rev \in Nat /\ documents[i].rev \in Nat
  BY <1>5, <1>8, <1>9
<1>11. Stage!TypeOK'
  <2>1. docs \in [Stage!Id -> Stage!Doc]
    BY <1>9 DEF Documents
  <2>2. todo' \in Seq(Stage!Posting) /\ Len(todo') <= ClassifyBatch
    BY <1>2, StageConstants
  <2> QED
    BY <1>1, <1>2, <1>9, <2>1, <2>2 DEF Stage!TypeOK
<1>12. Flow'
  <2>1. todo' \in Seq(Approvable)
    BY <1>2
  <2> QED
    BY <1>1, <1>2, <2>1 DEF Flow
<1>13. MemoryInv'
  <2>1. Unremembered' = Unremembered
    BY <1>2 DEF Unremembered
  <2>2. \A n \in 1..Len(written) : written[n].doc.rev <= docs[written[n].id].rev
    <3>1. ASSUME NEW n \in 1..Len(written) PROVE written[n].doc.rev <= docs[written[n].id].rev
      <4>1. written[n] \in Confirmation /\ written[n].doc.rev <= documents[written[n].id].rev
        BY <1>1, <3>1 DEF MemoryInv
      <4>2. written[n].id \in Stage!Id /\ written[n].doc.rev \in Nat
        BY <4>1 DEF Confirmation, Stage!Doc
      <4> QED
        BY ONLY <1>9, <1>10, <4>1, <4>2
    <3> QED
      BY <3>1
  <2>3. \A i \in Stage!Id : known[i].rev <= docs[i].rev
    <3>1. \A i \in Stage!Id : known[i].rev \in Nat /\ known[i].rev <= documents[i].rev
      BY <1>1 DEF MemoryInv, Stage!TypeOK, Stage!Doc
    <3> QED
      BY ONLY <1>9, <1>10, <3>1
  <2>4. UNCHANGED <<known, written>> /\ documents' = docs
    BY <1>2, <1>9
  <2>5. Unremembered \in Memory /\ written \in Seq(Confirmation)
    BY <1>1 DEF MemoryInv
  <2> QED
    BY <1>9, <2>1, <2>2, <2>3, <2>4, <2>5 DEF MemoryInv
<1>14. Searchable'
  <2>1. \A i \in Stage!Id : shown[i] <= docs[i].rev
    <3>1. \A i \in Stage!Id : shown[i] \in Nat /\ shown[i] <= documents[i].rev
      BY <1>1 DEF Searchable, Stage!TypeOK
    <3> QED
      BY ONLY <1>9, <1>10, <3>1
  <2> QED
    BY <1>1, <1>2, <1>9, <2>1 DEF Searchable, Queued
<1>15. NothingMore' /\ Approvals'
  BY <1>2 DEF NothingMore, Approvals
<1> QED
  BY <1>11, <1>12, <1>13, <1>14, <1>15 DEF StageInv

\* What was confirmed is known now, and queued, whatever failed after it.
LEMMA StageRemember ==
    ASSUME StageInv, Stage!Remember
    PROVE  StageInv'
<1>1. Stage!TypeOK /\ Flow /\ MemoryInv /\ NothingMore /\ Searchable /\ Approvals
  BY DEF StageInv
<1>2. /\ stage = "persist" /\ todo = <<>> /\ written' = <<>> /\ stage' = "index"
      /\ UNCHANGED <<canceled, error, count, ended, jobs, seen, window, todo, documents, shown, due, broken>>
  BY DEF Stage!Remember
<1>3. PICK m : m = Stage!Remembered
  OBVIOUS
<1>4. known' = m.known /\ flushed' = m.flushed /\ buffer' = m.buffer
  BY <1>3 DEF Stage!Remember
<1>5. /\ m \in Memory
      /\ \A i \in Stage!Id : Queued(buffer, i) => Queued(m.buffer, i)
      /\ \A k \in 1..Len(written) : Queued(m.buffer, written[k].id)
      /\ \A i \in Stage!Id : (\A k \in 1..Len(written) : written[k].id # i) => m.known[i] = known[i]
      /\ \A i \in Stage!Id : \/ m.known[i] = known[i]
                             \/ \E k \in 1..Len(written) : written[k].id = i /\ m.known[i] = written[k].doc
      /\ \A k \in 1..Len(written) : (\A x \in 1..Len(written) : x > k => written[x].id # written[k].id)
                                       => m.known[written[k].id] = written[k].doc
  <2>1. written \in Seq(Confirmation) /\ Unremembered \in Memory
    BY <1>1 DEF MemoryInv
  <2> QED
    BY ONLY <1>3, <2>1, RememberedEffect
<1>6. /\ m.known \in Documents /\ m.flushed \in [Stage!Key -> Stage!Id \cup {Stage!NoId}] /\ m.buffer \in Seq(Stage!Entry)
      /\ m = [known |-> m.known, flushed |-> m.flushed, buffer |-> m.buffer]
  BY <1>5 DEF Memory
<1>7. Unremembered' = m
  BY <1>4, <1>6 DEF Unremembered
<1>8. Len(written') = 0 /\ \A n \in 1..0 : FALSE
  BY <1>2
<1>9. Stage!TypeOK'
  <2>1. known' \in [Stage!Id -> Stage!Doc]
    BY <1>4, <1>6 DEF Documents
  <2>2. written' \in Seq([id : Stage!Id, doc : Stage!Doc])
    BY <1>2
  <2> QED
    BY <1>1, <1>2, <1>4, <1>6, <2>1, <2>2 DEF Stage!TypeOK
<1>10. Flow'
  BY <1>1, <1>2 DEF Flow
<1>11. MemoryInv'
  <2>1. ASSUME NEW i \in Stage!Id PROVE m.known[i].rev <= documents[i].rev
    <3>1. CASE m.known[i] = known[i]
      BY <1>1, <3>1 DEF MemoryInv
    <3>2. ASSUME NEW k \in 1..Len(written), written[k].id = i, m.known[i] = written[k].doc
          PROVE  m.known[i].rev <= documents[i].rev
      BY <1>1, <3>2 DEF MemoryInv
    <3> QED
      BY <1>5, <3>1, <3>2
  <2>2. written' \in Seq(Confirmation)
    BY <1>2
  <2>3. documents \in Documents
    BY <1>1 DEF MemoryInv
  <2> QED
    BY <1>2, <1>4, <1>5, <1>7, <1>8, <2>1, <2>2, <2>3 DEF MemoryInv
<1>12. NothingMore'
  <2>1. ASSUME NEW i \in Stage!Id, Accounted(i) PROVE documents[i].rev = m.known[i].rev
    <3>1. CASE documents[i].rev = known[i].rev /\ \A n \in 1..Len(written) : written[n].id # i
      BY <1>5, <3>1
    <3>2. ASSUME NEW n \in 1..Len(written), written[n].id = i, written[n].doc = documents[i],
                 \A x \in 1..Len(written) : x > n => written[x].id # i
          PROVE  documents[i].rev = m.known[i].rev
      BY <1>5, <3>2
    <3> QED
      BY <2>1, <3>1, <3>2 DEF Accounted
  <2> QED
    BY <1>1, <1>2, <1>4, <1>8, <2>1 DEF NothingMore, Accounted
<1>13. Searchable'
  <2>1. ASSUME ~broken, NEW i \in Stage!Id PROVE m.known[i].rev <= shown[i] \/ Queued(m.buffer, i)
    <3>1. known[i].rev <= shown[i] \/ Queued(buffer, i)
      BY <1>1, <2>1 DEF Searchable
    <3> QED
      BY <1>5, <3>1
  <2>2. \A i \in Stage!Id : Queued(buffer, i)' <=> Queued(m.buffer, i)
    BY <1>4 DEF Queued
  <2> QED
    BY <1>1, <1>2, <1>4, <2>1, <2>2 DEF Searchable
<1> QED
  BY <1>1, <1>2, <1>9, <1>10, <1>11, <1>12, <1>13, ApprovalsStay DEF StageInv

\* Some of the batch is in the index, and all of it has left the buffer.
LEMMA IndexStep ==
    ASSUME Stage!TypeOK, MemoryInv, Searchable, UNCHANGED <<known, flushed, written, documents>>,
           NEW chunk, chunk = Stage!FirstOf(buffer, IndexBatch), NEW put \in SUBSET Stage!Range(chunk),
           NEW rest, rest = Stage!After(buffer, IndexBatch), NEW after, after = Stage!IndexAfter(put),
           buffer' = rest, shown' = after
    PROVE  /\ rest \in Seq(Stage!Entry) /\ after \in [Stage!Id -> Nat]
           /\ MemoryInv'
           /\ \A i \in Stage!Id : after[i] <= documents[i].rev
           /\ put = Stage!Range(chunk) /\ ~broken
                 => \A i \in Stage!Id : known[i].rev <= after[i] \/ Queued(rest, i)
<1>1. /\ buffer \in Seq(Stage!Entry) /\ shown \in [Stage!Id -> Nat] /\ Unremembered \in Memory
      /\ \A i \in Stage!Id : known[i].rev \in Nat /\ documents[i].rev \in Nat /\ shown[i] \in Nat
  BY DEF Stage!TypeOK, Stage!Doc, MemoryInv
<1>2. \A n \in DOMAIN buffer : buffer[n] \in Stage!Entry /\ buffer[n].rev = known[buffer[n].id].rev
  <2>1. \A n \in DOMAIN buffer : buffer[n] \in Stage!Entry
    BY <1>1
  <2>2. Unremembered.buffer = buffer /\ Unremembered.known = known
    BY DEF Unremembered
  <2> QED
    BY <1>1, <2>1, <2>2 DEF Memory
<1>3. /\ chunk \in Seq(Stage!Entry) /\ rest \in Seq(Stage!Entry)
      /\ \A k \in DOMAIN chunk : \E i \in DOMAIN buffer : chunk[k] = buffer[i]
      /\ \A k \in DOMAIN rest : \E i \in DOMAIN buffer : rest[k] = buffer[i]
      /\ \A i \in DOMAIN buffer : \/ \E k \in DOMAIN chunk : chunk[k] = buffer[i]
                                  \/ \E k \in DOMAIN rest : rest[k] = buffer[i]
  BY SMTT(60), <1>1, StageConstants, Parted
<1>4. PICK R : R = Stage!Range(chunk)
  OBVIOUS
<1>5. /\ R \in SUBSET Stage!Entry /\ IsFiniteSet(R)
      /\ \A x \in R : \E k \in DOMAIN chunk : chunk[k] = x
      /\ \A k \in DOMAIN chunk : chunk[k] \in R
  BY <1>3, <1>4, FiniteRange
<1>6. put \in SUBSET Stage!Entry /\ put \subseteq R /\ IsFiniteSet(put)
  BY <1>4, <1>5, FS_Subset
<1>7. /\ after \in [Stage!Id -> Nat] /\ \A i \in Stage!Id : after[i] >= shown[i]
      /\ \A i \in Stage!Id : after[i] = shown[i] \/ \E e \in put : e.id = i /\ after[i] = e.rev
      /\ \A e \in put : after[e.id] >= e.rev
  BY <1>1, <1>6, IndexAfterEffect
<1>8. \A e \in R : e.rev = known[e.id].rev
  BY <1>2, <1>3, <1>5
<1>9. \A n \in DOMAIN rest : rest[n].rev = known[rest[n].id].rev
  BY <1>2, <1>3
<1>10. ASSUME NEW i \in Stage!Id PROVE after[i] <= documents[i].rev
  <2>1. CASE after[i] = shown[i]
    BY <2>1 DEF Searchable
  <2>2. ASSUME NEW e \in put, e.id = i, after[i] = e.rev PROVE after[i] <= documents[i].rev
    BY <1>6, <1>8, <2>2 DEF MemoryInv
  <2> QED
    BY <1>7, <2>1, <2>2
<1>11. MemoryInv'
  <2>1. PICK old : old = Unremembered /\ old \in Memory /\ old.known = known /\ old.flushed = flushed
    BY <1>1 DEF Unremembered
  <2>2. PICK new : new = [known |-> known, flushed |-> flushed, buffer |-> rest]
    OBVIOUS
  <2>3. new \in Memory
    BY <1>3, <1>9, <2>1, <2>2 DEF Memory
  <2>4. Unremembered' = new
    BY <2>2 DEF Unremembered
  <2> QED
    BY <2>3, <2>4 DEF MemoryInv
<1>12. ASSUME put = R, ~broken, NEW i \in Stage!Id PROVE known[i].rev <= after[i] \/ Queued(rest, i)
  <2>1. CASE known[i].rev <= shown[i]
    <3>1. after[i] \in Nat /\ after[i] >= shown[i] /\ known[i].rev \in Nat /\ shown[i] \in Nat
      BY <1>1, <1>7
    <3> QED
      BY ONLY <2>1, <3>1
  <2>2. ASSUME NEW n \in DOMAIN buffer, buffer[n].id = i PROVE known[i].rev <= after[i] \/ Queued(rest, i)
    <3>1. ASSUME NEW k \in DOMAIN rest, rest[k] = buffer[n] PROVE Queued(rest, i)
      BY <2>2, <3>1 DEF Queued
    <3>2. ASSUME NEW k \in DOMAIN chunk, chunk[k] = buffer[n] PROVE known[i].rev <= after[i]
      <4>1. PICK e : e = buffer[n] /\ e \in put /\ e.id = i
        BY <1>5, <1>12, <2>2, <3>2
      <4>2. after[i] >= e.rev /\ e.rev = known[i].rev
        BY <1>7, <1>8, <1>12, <4>1
      <4>3. after[i] \in Nat /\ known[i].rev \in Nat
        BY <1>1, <1>7
      <4> QED
        BY ONLY <4>2, <4>3
    <3> QED
      BY <1>3, <3>1, <3>2
  <2> QED
    BY <1>12, <2>1, <2>2 DEF Searchable, Queued
<1> QED
  BY <1>3, <1>4, <1>7, <1>10, <1>11, <1>12

LEMMA StageIndexChunk ==
    ASSUME StageInv, Stage!IndexChunk
    PROVE  StageInv'
<1>1. Stage!TypeOK /\ Flow /\ MemoryInv /\ NothingMore /\ Searchable /\ Approvals
  BY DEF StageInv
<1>2. /\ stage \in {"index", "final"}
      /\ UNCHANGED <<stage, canceled, error, count, ended, jobs, seen, window, flushed, known, todo, written,
                     documents, due, broken>>
  BY DEF Stage!IndexChunk, Stage!IndexDue, Stage!dedup
<1>3. PICK chunk, rest : chunk = Stage!FirstOf(buffer, IndexBatch) /\ rest = Stage!After(buffer, IndexBatch)
  OBVIOUS
<1>4. PICK put : put = Stage!Range(chunk) /\ put \in SUBSET Stage!Range(chunk)
  OBVIOUS
<1>5. PICK after : after = Stage!IndexAfter(put)
  OBVIOUS
<1>6. buffer' = rest /\ shown' = after
  BY <1>3, <1>4, <1>5 DEF Stage!IndexChunk
<1>7. /\ rest \in Seq(Stage!Entry) /\ after \in [Stage!Id -> Nat]
      /\ MemoryInv'
      /\ \A i \in Stage!Id : after[i] <= documents[i].rev
      /\ ~broken => \A i \in Stage!Id : known[i].rev <= after[i] \/ Queued(rest, i)
  BY <1>1, <1>2, <1>3, <1>4, <1>5, <1>6, IndexStep
<1>8. Stage!TypeOK'
  BY <1>1, <1>2, <1>6, <1>7 DEF Stage!TypeOK
<1>9. Flow'
  BY <1>1, <1>2 DEF Flow
<1>10. Searchable'
  BY <1>2, <1>6, <1>7 DEF Searchable, Queued
<1> QED
  BY <1>1, <1>2, <1>7, <1>8, <1>9, <1>10, NothingMoreStays, ApprovalsStay DEF StageInv

LEMMA StageIndexFails ==
    ASSUME StageInv, Stage!IndexFails
    PROVE  StageInv'
<1>1. Stage!TypeOK /\ Flow /\ MemoryInv /\ NothingMore /\ Searchable /\ Approvals
  BY DEF StageInv
<1>2. /\ stage \in {"index", "final"} /\ stage' \in {"done", "final", "receive"} /\ error' = TRUE /\ broken' = TRUE
      /\ UNCHANGED <<canceled, count, ended, jobs, seen, window, flushed, known, todo, written, documents, due>>
  BY DEF Stage!IndexFails, Stage!IndexDue, Stage!Resume, Stage!dedup
<1>3. PICK chunk, rest : chunk = Stage!FirstOf(buffer, IndexBatch) /\ rest = Stage!After(buffer, IndexBatch)
  OBVIOUS
<1>4. PICK put : put \in SUBSET Stage!Range(chunk) /\ shown' = Stage!IndexAfter(put)
  BY <1>3 DEF Stage!IndexFails
<1>5. PICK after : after = Stage!IndexAfter(put)
  OBVIOUS
<1>6. buffer' = rest /\ shown' = after
  BY <1>3, <1>4, <1>5 DEF Stage!IndexFails
<1>7. /\ rest \in Seq(Stage!Entry) /\ after \in [Stage!Id -> Nat]
      /\ MemoryInv'
      /\ \A i \in Stage!Id : after[i] <= documents[i].rev
  BY <1>1, <1>2, <1>3, <1>4, <1>5, <1>6, IndexStep
<1>8. Stage!TypeOK'
  BY <1>1, <1>2, <1>6, <1>7 DEF Stage!TypeOK
<1>9. Flow'
  BY <1>1, <1>2 DEF Flow
<1>10. Searchable'
  BY <1>2, <1>6, <1>7 DEF Searchable
<1>11. NothingMore' /\ Approvals'
  BY <1>2 DEF NothingMore, Approvals
<1> QED
  BY <1>7, <1>8, <1>9, <1>10, <1>11 DEF StageInv

\* The stage is done with a full buffer only if it was canceled.
LEMMA StageIndexRests ==
    ASSUME StageInv, Stage!IndexRests
    PROVE  StageInv'
<1>1. Stage!TypeOK /\ Flow /\ MemoryInv /\ NothingMore /\ Searchable /\ Approvals
  BY DEF StageInv
<1>2. /\ stage \in {"index", "final"} /\ stage' = IF stage = "final" THEN "done" ELSE Stage!Resume
      /\ UNCHANGED <<canceled, count, ended, jobs, seen, window, flushed, known, todo, written, buffer,
                     documents, shown, due, broken>>
  BY DEF Stage!IndexRests, Stage!dedup
<1>3. /\ error => error'
      /\ error' \in BOOLEAN
      /\ Stage!IndexDue => canceled
  BY <1>1 DEF Stage!IndexRests, Stage!TypeOK
<1>4. stage' \in {"done", "final", "receive"} /\ (stage' = "done" => stage = "final")
  BY <1>2 DEF Stage!Resume
<1>5. Stage!TypeOK'
  BY <1>1, <1>2, <1>3, <1>4 DEF Stage!TypeOK
<1>6. ASSUME stage' = "done", ~canceled PROVE buffer = <<>>
  BY <1>3, <1>4, <1>6 DEF Stage!IndexDue
<1>7. Flow'
  BY <1>1, <1>2, <1>3, <1>4, <1>6 DEF Flow
<1> QED
  BY <1>1, <1>2, <1>3, <1>5, <1>7, MemoryStays, NothingMoreStays, SearchableStays, ApprovalsStay DEF StageInv

LEMMA StageInvNext ==
    ASSUME StageInv, [Stage!Next]_(Stage!vars)
    PROVE  StageInv'
<1>1. Stage!TypeOK /\ Flow /\ MemoryInv /\ NothingMore /\ Searchable /\ Approvals
  BY DEF StageInv
<1>2. CASE UNCHANGED Stage!vars
  <2>1. UNCHANGED <<stage, canceled, error, count, ended, jobs, seen, window, flushed, known, todo, written, buffer,
                    documents, shown, due, broken>>
    BY <1>2 DEF Stage!vars
  <2>2. Stage!TypeOK'
    BY <1>1, <2>1 DEF Stage!TypeOK
  <2>3. Flow'
    BY <1>1, <2>1 DEF Flow
  <2> QED
    BY <1>1, <2>1, <2>2, <2>3, MemoryStays, NothingMoreStays, SearchableStays, ApprovalsStay DEF StageInv
<1>3. CASE Stage!Next
  <2>1. CASE Stage!Terminated
    BY <1>2, <2>1 DEF Stage!Terminated
  <2> QED
    BY <1>3, <2>1, StageCancel, StageNoticeCancel, StageLateDuplicate, StageWindowDuplicate, StageNewJob,
       StageEndOfInput, StageSaveChunk, StageSaveFails, StageRemember, StageIndexChunk, StageIndexFails,
       StageIndexRests DEF Stage!Next
<1> QED
  BY <1>2, <1>3

LEMMA StageInvariance == Stage!Spec => []StageInv
<1>1. Stage!Init => StageInv
  BY StageInvInit
<1>2. StageInv /\ [Stage!Next]_(Stage!vars) => StageInv'
  BY StageInvNext
<1> QED
  BY <1>1, <1>2, PTL DEF Stage!Spec

-----------------------------------------------------------------------------
(* What follows for the processor. *)

\* What the processor does is what its catalog does, and what its processing stage does.
THEOREM ProcessorIsBoth == MCSpec => Spec /\ Stage!Spec
<1>1. MCInit => Init /\ Stage!Init
  BY DEF MCInit
<1>2. [MCNext]_<<part, vars, staged>> => [Next]_vars
  BY DEF MCNext
<1>3. [MCNext]_<<part, vars, staged>> => [Stage!Next]_(Stage!vars)
  <2>1. UNCHANGED staged => UNCHANGED Stage!vars
    BY DEF staged, Stage!vars
  <2> QED
    BY <2>1 DEF MCNext
<1> QED
  BY <1>1, <1>2, <1>3, PTL DEF MCSpec, Spec, Stage!Spec

\* The variables of the processing stage keep their types: no window and no batch of
\* processIncomingJobs (process.go) is longer than classifyBatch, and nothing is queued for
\* the index without an ID and a revision.
THEOREM StageTypeCorrect == Stage!Spec => []Stage!TypeOK
<1>1. StageInv => Stage!TypeOK
  BY DEF StageInv
<1> QED
  BY <1>1, StageInvariance, PTL

\* Searches find only what was committed, and the revision that goes to the index last is the
\* last one the run knows, also of a job that a late duplicate changed (enqueuePersisted and
\* mergeFlushed of process.go).
THEOREM IndexFollowsCatalogAlways == MCSpec => []IndexFollowsCatalog
<1>1. StageInv => IndexFollowsCatalog
  BY StageInvImplies
<1> QED
  BY <1>1, ProcessorIsBoth, StageInvariance, PTL

\* What the catalog confirmed is in the index when the stage ends, whatever else failed, unless
\* the index refused a write or the run was canceled (persistJobs and flushIndexBuffer).
THEOREM ConfirmedIsIndexedAlways == MCSpec => []ConfirmedIsIndexed
<1>1. StageInv => ConfirmedIsIndexed
  BY StageInvImplies
<1> QED
  BY <1>1, ProcessorIsBoth, StageInvariance, PTL

\* A stage that ends without an error has every job that it approved in the catalog, and the
\* index shows the catalog's revision of every document (processIncomingJobs).
THEOREM SuccessIsSearchableAlways == MCSpec => []SuccessIsSearchable
<1>1. StageInv => SuccessIsSearchable
  BY StageInvImplies
<1> QED
  BY <1>1, ProcessorIsBoth, StageInvariance, PTL
=============================================================================
