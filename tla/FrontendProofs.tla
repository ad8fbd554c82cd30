--------------------------- MODULE FrontendProofs ---------------------------
(***************************************************************************)
(* Proofs about the pages of the two frontends: for each an invariant that *)
(* its steps preserve, from which the properties of MCFrontends follow for *)
(* every value of the constants.                                           *)
(***************************************************************************)
EXTENDS MCFrontends, Listings, FiniteSetTheorems, TLAPS

-----------------------------------------------------------------------------
(* What is kept of a sequence *)

Below(S, x) == {y \in S : <<y, x>> \in Less}
Place(S, x) == Cardinality(Below(S, x))

LEMMA FirstNumbers == ASSUME NEW n \in Nat PROVE IsFiniteSet(1..n) /\ Cardinality(1..n) = n
<1>1. n \in Int /\ 1 \in Int
  OBVIOUS
<1>2. IsFiniteSet(1..n) /\ Cardinality(1..n) = IF 1 > n THEN 0 ELSE n - 1 + 1
  BY ONLY <1>1, FS_Interval
<1> QED
  BY ONLY <1>2, n \in Nat

LEMMA PlaceIsANumber ==
    ASSUME NEW S, S \subseteq Nat \ {0}, IsFiniteSet(S), NEW x \in Nat \ {0}
    PROVE  /\ IsFiniteSet(Below(S, x)) /\ Place(S, x) \in Nat /\ Place(S, x) <= x - 1
           /\ x \in S => Place(S, x) <= Cardinality(S) - 1
<1>1. Below(S, x) \subseteq S
  BY DEF Below
<1>2. IsFiniteSet(Below(S, x)) /\ Place(S, x) \in Nat /\ Cardinality(S) \in Nat /\ Place(S, x) <= Cardinality(S)
  BY <1>1, FS_Subset, FS_CardinalityType DEF Place
<1>3. Place(S, x) <= x - 1
  <2>1. PICK n \in Nat : n = x - 1
    OBVIOUS
  <2>2. Below(S, x) \subseteq 1..n
    BY <2>1 DEF Below, Less
  <2>3. Cardinality(Below(S, x)) <= Cardinality(1..n)
    BY ONLY <2>2, FirstNumbers, FS_Subset, n \in Nat
  <2> QED
    BY <2>1, <2>3, FirstNumbers DEF Place
<1>4. x \in S => Place(S, x) < Cardinality(S)
  <2>1. x \notin Below(S, x)
    BY DEF Below, Less
  <2>2. x \in S => Cardinality(Below(S, x)) # Cardinality(S)
    BY ONLY <1>1, <2>1, IsFiniteSet(S), FS_Subset
  <2> QED
    BY <1>2, <2>2 DEF Place
<1> QED
  BY <1>2, <1>3, <1>4

LEMMA PlaceGrows ==
    ASSUME NEW S, S \subseteq Nat \ {0}, IsFiniteSet(S), NEW x \in S, NEW y \in S, x < y
    PROVE  Place(S, x) < Place(S, y)
<1>1. Below(S, x) \subseteq Below(S, y) /\ x \in Below(S, y) /\ x \notin Below(S, x)
  BY DEF Below, Less
<1>2. IsFiniteSet(Below(S, y)) /\ Place(S, x) \in Nat /\ Place(S, y) \in Nat
  BY PlaceIsANumber
<1> QED
  BY ONLY <1>1, <1>2, FS_Subset DEF Place

\* Every place is taken.
LEMMA PlaceTaken ==
    ASSUME NEW S, S \subseteq Nat \ {0}, IsFiniteSet(S), NEW k \in 1..Cardinality(S)
    PROVE  \E x \in S : Place(S, x) = k - 1
<1>1. PICK n \in Nat : n = Cardinality(S)
  BY FS_CardinalityType
<1>2. PICK f : f = [x \in S |-> Place(S, x) + 1]
  OBVIOUS
<1>3. ASSUME NEW x \in S PROVE Place(S, x) + 1 \in 1..n
  <2>1. Place(S, x) \in Nat /\ Place(S, x) <= n - 1
    BY <1>1, PlaceIsANumber
  <2> QED
    BY ONLY <2>1, n \in Nat
<1>4. ASSUME NEW x \in S, NEW y \in S, f[x] = f[y] PROVE x = y
  <2>1. Place(S, x) \in Nat /\ Place(S, y) \in Nat
    BY PlaceIsANumber
  <2>2. Place(S, x) = Place(S, y)
    <3>1. Place(S, x) + 1 = Place(S, y) + 1
      BY ONLY <1>2, <1>4
    <3> QED
      BY ONLY <2>1, <3>1
  <2>3. ~(x < y) /\ ~(y < x)
    <3>1. x < y => Place(S, x) < Place(S, y)
      BY PlaceGrows
    <3>2. y < x => Place(S, y) < Place(S, x)
      BY PlaceGrows
    <3> QED
      BY ONLY <2>1, <2>2, <3>1, <3>2
  <2>4. x \in Nat /\ y \in Nat
    OBVIOUS
  <2> QED
    BY ONLY <2>3, <2>4
<1>5. f \in Injection(S, 1..n)
  <2>1. f \in [S -> 1..n]
    BY <1>2, <1>3
  <2> QED
    BY <1>4, <2>1 DEF Injection, IsInjective
<1>6. f \in Surjection(S, 1..n)
  BY ONLY <1>1, <1>5, FirstNumbers, FS_Injection
<1>7. PICK x \in S : f[x] = k
  BY <1>1, <1>6 DEF Surjection
<1>8. Place(S, x) \in Nat /\ Place(S, x) + 1 = k
  BY <1>2, <1>7, PlaceIsANumber
<1> QED
  BY ONLY <1>8, x \in S

\* The numbers of a set from the least to the greatest.
IsAscending(s, S) ==
    /\ DOMAIN s = 1..Cardinality(S) /\ Cardinality(S) \in Nat
    /\ \A k \in DOMAIN s : s[k] \in S /\ s[k] >= k
    /\ \A i, j \in DOMAIN s : i < j => s[i] < s[j]
    /\ \A x \in S : \E k \in DOMAIN s : s[k] = x

LEMMA AscendingLists ==
    ASSUME NEW S, S \subseteq Nat \ {0}, IsFiniteSet(S), NEW s, s = Ascending(S)
    PROVE  IsAscending(s, S)
<1>1. PICK n \in Nat : n = Cardinality(S)
  BY FS_CardinalityType
<1>8. PICK before : before = [x \in S |-> Cardinality({y \in S : <<y, x>> \in Less})]
  OBVIOUS
<1>2. DOMAIN s = 1..n /\ \A k \in 1..n : s[k] = CHOOSE x \in S : before[x] = k - 1
  BY ONLY <1>1, <1>8, s = Ascending(S) DEF Ascending, InOrder
<1>3. ASSUME NEW k \in 1..n PROVE s[k] \in S /\ Place(S, s[k]) = k - 1
  <2>1. PICK x \in S : Place(S, x) = k - 1
    BY <1>1, PlaceTaken
  <2>2. before[x] = k - 1
    BY ONLY <1>8, <2>1 DEF Place, Below
  <2>3. PICK v : v = s[k]
    OBVIOUS
  <2>4. v = CHOOSE z \in S : before[z] = k - 1
    BY <1>2, <2>3
  <2>5. v \in S /\ before[v] = k - 1
    BY ONLY <2>2, <2>4, x \in S
  <2> QED
    BY ONLY <1>8, <2>3, <2>5 DEF Place, Below
<1>4. ASSUME NEW k \in 1..n PROVE s[k] >= k
  <2>1. PICK v \in S : v = s[k] /\ Place(S, v) = k - 1
    BY <1>3
  <2>2. v \in Nat \ {0}
    OBVIOUS
  <2>3. Place(S, v) <= v - 1
    BY <2>2, PlaceIsANumber
  <2> QED
    BY ONLY <2>1, <2>2, <2>3, k \in 1..n, n \in Nat
<1>5. ASSUME NEW i \in 1..n, NEW j \in 1..n, i < j PROVE s[i] < s[j]
  <2>1. PICK x, y : x = s[i] /\ y = s[j]
    OBVIOUS
  <2>2. x \in S /\ y \in S /\ Place(S, x) = i - 1 /\ Place(S, y) = j - 1
    BY <1>3, <2>1
  <2>3. x \in Nat /\ y \in Nat
    BY <2>2
  <2>4. x # y /\ ~(y < x)
    <3>1. y < x => Place(S, y) < Place(S, x)
      BY <2>2, PlaceGrows
    <3> QED
      BY ONLY <1>5, <2>2, <3>1, n \in Nat
  <2> QED
    BY ONLY <2>1, <2>3, <2>4
<1>6. ASSUME NEW x \in S PROVE \E k \in 1..n : s[k] = x
  <2>1. PICK k : k = Place(S, x) + 1
    OBVIOUS
  <2>2. Place(S, x) \in Nat /\ Place(S, x) <= n - 1
    BY <1>1, PlaceIsANumber
  <2>3. k \in 1..n /\ k - 1 = Place(S, x)
    BY ONLY <2>1, <2>2, n \in Nat
  <2>4. PICK y : y = s[k]
    OBVIOUS
  <2>5. y \in S /\ Place(S, y) = Place(S, x)
    BY <1>3, <2>3, <2>4
  <2>6. ~(x < y) /\ ~(y < x)
    <3>1. x < y => Place(S, x) < Place(S, y)
      BY <2>5, PlaceGrows
    <3>2. y < x => Place(S, y) < Place(S, x)
      BY <2>5, PlaceGrows
    <3> QED
      BY ONLY <2>2, <2>5, <3>1, <3>2
  <2>7. x \in Nat /\ y \in Nat
    BY <2>5
  <2> QED
    BY ONLY <2>3, <2>4, <2>6, <2>7
<1> QED
  BY <1>1, <1>2, <1>3, <1>4, <1>5, <1>6 DEF IsAscending

\* What Only keeps: each of its members comes from a place of its own, in the same order,
\* and none of the set is left out.
From(p, s, S, g) ==
    /\ \A k \in DOMAIN p : g[k] \in DOMAIN s /\ g[k] >= k /\ p[k] = s[g[k]] /\ p[k] \in S
    /\ \A i, j \in DOMAIN p : i < j => g[i] < g[j]
    /\ \A i \in DOMAIN s : s[i] \in S => \E k \in DOMAIN p : g[k] = i
Keeps(U, s, S, p) == p \in Seq(U) /\ Len(p) <= Len(s) /\ \E g : From(p, s, S, g)

LEMMA OnlyKeeps ==
    ASSUME NEW U, NEW s \in Seq(U), NEW S, NEW p, p = Only(s, S)
    PROVE  Keeps(U, s, S, p)
<1>1. PICK n \in Nat : n = Len(s) /\ DOMAIN s = 1..n /\ \A i \in 1..n : s[i] \in U
  OBVIOUS
<1>2. PICK K : K = {i \in DOMAIN s : s[i] \in S}
  OBVIOUS
<1>3. PICK g : g = Ascending(K)
  OBVIOUS
<1>4. K \subseteq Nat \ {0} /\ IsFiniteSet(K) /\ Cardinality(K) <= n
  <2>1. K \subseteq 1..n
    BY <1>1, <1>2
  <2>2. IsFiniteSet(K) /\ Cardinality(K) <= Cardinality(1..n)
    BY ONLY <2>1, FirstNumbers, FS_Subset, n \in Nat
  <2>3. K \subseteq Nat \ {0}
    BY ONLY <2>1, n \in Nat
  <2> QED
    BY ONLY <2>2, <2>3, FirstNumbers, n \in Nat
<1>5. IsAscending(g, K)
  BY ONLY <1>3, <1>4, AscendingLists
<1>6. PICK m \in Nat : m = Cardinality(K) /\ DOMAIN g = 1..m /\ m <= n
  BY ONLY <1>4, <1>5 DEF IsAscending
<1>7. p = [k \in 1..m |-> s[g[k]]]
  BY <1>2, <1>3, <1>6 DEF Only
<1>8. \A k \in 1..m : g[k] \in K /\ g[k] \in 1..n /\ g[k] >= k
  BY <1>1, <1>2, <1>5, <1>6 DEF IsAscending
<1>9. p \in Seq(U) /\ Len(p) = m /\ DOMAIN p = 1..m
  <2>1. \A k \in 1..m : s[g[k]] \in U
    BY <1>1, <1>8
  <2>2. p \in [1..m -> U]
    BY ONLY <1>7, <2>1
  <2> QED
    BY ONLY <2>2, m \in Nat
<1>10. From(p, s, S, g)
  <2>1. \A k \in 1..m : p[k] = s[g[k]] /\ p[k] \in S
    BY <1>2, <1>7, <1>8
  <2>2. \A i, j \in 1..m : i < j => g[i] < g[j]
    BY <1>5, <1>6 DEF IsAscending
  <2>3. ASSUME NEW i \in 1..n, s[i] \in S PROVE \E k \in 1..m : g[k] = i
    <3>1. i \in K
      BY <1>1, <1>2, <2>3
    <3> QED
      BY <1>5, <1>6, <3>1 DEF IsAscending
  <2> QED
    BY <1>1, <1>8, <1>9, <2>1, <2>2, <2>3 DEF From
<1> QED
  BY <1>1, <1>6, <1>9, <1>10 DEF Keeps

\* The members of a finite set, in some order.
IsSomeOrder(s, S) == s \in Seq(S) /\ Entries(s) = S /\ Len(s) = Cardinality(S) /\ \A x \in S : \E i \in DOMAIN s : s[i] = x

LEMMA SomeOrderLists ==
    ASSUME NEW S, IsFiniteSet(S), NEW s, s = InSomeOrder(S)
    PROVE  IsSomeOrder(s, S)
<1>1. PICK m \in Nat : m = Cardinality(S)
  BY FS_CardinalityType
<1>2. PICK g : g \in [1..m -> S] /\ Entries(g) = S
  <2>1. Bijection(1..m, S) # {}
    BY <1>1, FS_CardinalityType DEF ExistsBijection
  <2>2. PICK g \in [1..m -> S] : \A x \in S : \E i \in 1..m : g[i] = x
    BY <2>1 DEF Bijection, Surjection
  <2>3. DOMAIN g = 1..m /\ \A i \in 1..m : g[i] \in S
    BY ONLY <2>2
  <2>4. Entries(g) \subseteq S
    BY ONLY <2>3 DEF Entries
  <2>5. ASSUME NEW x \in S PROVE x \in Entries(g)
    <3>1. PICK i \in 1..m : g[i] = x
      BY <2>2
    <3> QED
      BY <2>3, <3>1 DEF Entries
  <2> QED
    BY <2>2, <2>4, <2>5
<1>3. s = CHOOSE f \in [1..m -> S] : Entries(f) = S
  BY <1>1 DEF InSomeOrder
<1>4. s \in [1..m -> S] /\ Entries(s) = S
  BY <1>2, <1>3
<1>5. s \in Seq(S) /\ DOMAIN s = 1..m /\ Len(s) = m
  BY ONLY <1>4, m \in Nat
<1> QED
  BY <1>1, <1>4, <1>5 DEF Entries, IsSomeOrder

-----------------------------------------------------------------------------
(* Recommendations *)

SearchConstants == AnyModel \in Models /\ 1 \in Pages /\ MaxRequests \in Nat \ {0} /\ None \notin Families

\* A request is younger than none of those that were numbered, and is shown or waited for.
Numbered ==
    /\ \A t \in tasks : t.id \in 1..last /\ t.id # shown.id
    /\ \A t, u \in tasks : t.id = u.id => t = u
    /\ shown.id <= last

\* The first visit to the jobs is still to come: nothing was searched yet.
NotVisited ==
    first => /\ view.section # "vagas" /\ ~timer
             /\ \A t \in tasks \cup {shown} : t.kind = "load"

\* The latest search is of the filters on the screen, unless another is due.
IsOfScreen(t) ==
    t.kind = "refresh" /\ t.id = last /\ view.section = "vagas" /\ ~timer => t.ask.filters = view.filters

SearchInv ==
    /\ Search!RTypeOK
    /\ Numbered /\ NotVisited
    /\ \A t \in tasks \cup {shown} : IsOfScreen(t)

LEMMA SearchStart == ASSUME SearchConstants, Search!RInit PROVE SearchInv
<1>1. PICK f \in Search!FilterSets, s \in Search!Sections :
          f.model = AnyModel /\ view = [filters |-> f, section |-> s] /\ first = (s # "vagas")
  BY DEF Search!RInit
<1>2. PICK a, b : a = Search!Load(1, None) /\ b = Search!Load(0, None)
  OBVIOUS
<1>3. /\ a.id = 1 /\ a.kind = "load" /\ a \in Search!Task
      /\ b.id = 0 /\ b.kind = "load" /\ b \in Search!Task
  <2>1. 0 \in 0..MaxRequests /\ 1 \in 0..MaxRequests
    BY DEF SearchConstants
  <2> QED
    BY <1>2, <2>1 DEF Search!Load, Search!Task, Search!Ask
<1>4. /\ prefs = [loading |-> TRUE, model |-> AnyModel] /\ saving = None /\ chosen = FALSE /\ timer = FALSE
      /\ last = 1 /\ tasks = {a} /\ shown = b /\ refreshing = FALSE
  BY <1>2 DEF Search!RInit
<1>5. Search!RTypeOK
  <2>1. view \in Search!View /\ first \in BOOLEAN
    BY <1>1 DEF Search!View
  <2>2. prefs \in [loading : BOOLEAN, model : Models] /\ last \in 0..MaxRequests
    BY <1>4 DEF SearchConstants
  <2> QED
    BY <1>3, <1>4, <2>1, <2>2 DEF Search!RTypeOK
<1>6. Numbered
  BY <1>3, <1>4 DEF Numbered
<1>7. NotVisited
  BY <1>1, <1>3, <1>4 DEF NotVisited
<1>8. \A t \in tasks \cup {shown} : IsOfScreen(t)
  BY <1>3, <1>4 DEF IsOfScreen
<1> QED
  BY <1>5, <1>6, <1>7, <1>8 DEF SearchInv

\* A request is numbered after all others.
LEMMA NewestIsNumbered ==
    ASSUME Numbered, last \in Nat, NEW new, new.id = last + 1, last' = last + 1, tasks' = tasks \cup {new}, shown' = shown,
           shown.id \in Nat
    PROVE  Numbered'
<1>1. \A t \in tasks : t.id \in 1..last /\ t.id # shown.id /\ t.id # last + 1 /\ t.id \in 1..last + 1
  BY DEF Numbered
<1>2. shown.id <= last + 1 /\ shown.id # last + 1 /\ last + 1 \in 1..last + 1
  BY DEF Numbered
<1> QED
  BY ONLY <1>1, <1>2, Numbered, new.id = last + 1, last' = last + 1, tasks' = tasks \cup {new}, shown' = shown DEF Numbered

\* What a render asks for is a request.
LEMMA InitialIsAsk ==
    ASSUME SearchConstants, NEW v \in Search!View, NEW p \in [loading : BOOLEAN, model : Models]
    PROVE  Search!Initial(v, p) \in Search!Ask
<1>1. v.filters \in Search!FilterSets /\ v.filters.text \in Texts /\ p.model \in Models
  BY DEF Search!View, Search!FilterSets
<1>2. Search!Plain \in Texts
  BY <1>1 DEF Search!Plain
<1>3. [v.filters EXCEPT !.model = p.model, !.text = Search!Plain] \in Search!FilterSets
  BY <1>1, <1>2 DEF Search!FilterSets
<1> QED
  BY <1>3 DEF Search!Initial, Search!Ask, SearchConstants

LEMMA CommitKeeps ==
    ASSUME SearchConstants, SearchInv, NEW v \in Search!View, NEW p \in [loading : BOOLEAN, model : Models],
           NEW c \in BOOLEAN, Search!Commit(v, p, c), saving' \in Models \cup {None}
    PROVE  SearchInv'
<1> DEFINE w == IF p # prefs /\ ~p.loading /\ ~c THEN [v EXCEPT !.filters.model = p.model] ELSE v
           asksAgain == Search!Initial(w, p) # Search!Initial(view, prefs)
<1>1. w \in Search!View
  <2>1. v.filters \in Search!FilterSets /\ p.model \in Models
    BY DEF Search!View
  <2>2. [v.filters EXCEPT !.model = p.model] \in Search!FilterSets
    BY <2>1 DEF Search!FilterSets
  <2> QED
    BY <2>1, <2>2 DEF Search!View
<1>2. PICK ask \in Search!Ask : ask = Search!Initial(w, p)
  BY <1>1, InitialIsAsk
<1>3. /\ last < MaxRequests /\ view' = w /\ prefs' = p /\ chosen' = c
      /\ timer' = (IF w = view THEN timer ELSE w.section = "vagas" /\ ~first)
      /\ first' = (first /\ (w = view \/ w.section # "vagas"))
      /\ last' = (IF asksAgain THEN last + 1 ELSE last)
      /\ tasks' = (IF asksAgain THEN tasks \cup {Search!Load(last + 1, ask)} ELSE tasks)
      /\ shown' = shown /\ refreshing' = refreshing
  BY <1>2 DEF Search!Commit
<1> HIDE DEF w, asksAgain
<1>4. /\ view \in Search!View /\ timer \in BOOLEAN /\ first \in BOOLEAN /\ refreshing \in BOOLEAN
      /\ last \in 0..MaxRequests /\ tasks \subseteq Search!Task /\ shown \in Search!Task
  BY DEF SearchInv, Search!RTypeOK
<1>5. PICK new : new = Search!Load(last + 1, ask)
  OBVIOUS
<1>6. new.id = last + 1 /\ new.kind = "load" /\ new \in Search!Task
  <2>1. last + 1 \in 0..MaxRequests
    BY <1>3, <1>4 DEF SearchConstants
  <2> QED
    BY <1>5, <2>1 DEF Search!Load, Search!Task
<1>7. Search!RTypeOK'
  <2>1. last' \in 0..MaxRequests /\ tasks' \subseteq Search!Task
    BY <1>3, <1>4, <1>5, <1>6 DEF SearchConstants
  <2>2. <<chosen', first', timer', refreshing'>> \in BOOLEAN \X BOOLEAN \X BOOLEAN \X BOOLEAN
    BY <1>3, <1>4
  <2> QED
    BY <1>1, <1>3, <1>4, <2>1, <2>2 DEF Search!RTypeOK
<1>8. Numbered'
  <2>1. CASE ~asksAgain
    BY <1>3, <2>1 DEF SearchInv, Numbered
  <2>2. CASE asksAgain
    <3>1. last' = last + 1 /\ tasks' = tasks \cup {new} /\ shown' = shown
      BY <1>3, <1>5, <2>2
    <3>2. Numbered /\ last \in Nat
      BY <1>4 DEF SearchInv
    <3> QED
      BY <1>4, <1>6, <3>1, <3>2, NewestIsNumbered DEF Search!Task
  <2> QED
    BY <2>1, <2>2
<1>9. NotVisited'
  BY <1>3, <1>4, <1>5, <1>6 DEF SearchInv, NotVisited
<1>10. \A t \in tasks' \cup {shown'} : IsOfScreen(t)'
  <2>1. ASSUME NEW t \in tasks \cup {shown}, t.kind = "refresh"
        PROVE  t.id = last' /\ view'.section = "vagas" /\ ~timer' => t.ask.filters = view'.filters
    <3>1. ~first /\ t.id \in Nat /\ t.id <= last
      BY <1>4, <2>1 DEF SearchInv, NotVisited, Numbered, Search!Task
    <3>2. t.id = last' => last' = last
      BY <1>3, <1>4, <3>1
    <3>3. CASE w = view
      BY <1>3, <2>1, <3>1, <3>2, <3>3 DEF SearchInv, IsOfScreen
    <3>4. CASE w # view
      BY <1>3, <3>1, <3>4
    <3> QED
      BY <3>3, <3>4
  <2>2. \A t \in tasks' \cup {shown'} : t \in tasks \cup {shown} \/ t = new
    BY <1>3, <1>5
  <2> QED
    BY <1>6, <2>1, <2>2 DEF IsOfScreen
<1> QED
  BY <1>7, <1>8, <1>9, <1>10 DEF SearchInv

LEMMA RefreshKeeps ==
    ASSUME SearchConstants, SearchInv, NEW n \in Pages, Search!Refresh(n), timer' \in {timer, FALSE},
           timer \/ view.section = "vagas"
    PROVE  SearchInv'
<1>1. PICK new : new = [id |-> last + 1, kind |-> "refresh", ask |-> [filters |-> view.filters, page |-> n]]
  OBVIOUS
<1>2. /\ last < MaxRequests /\ last' = last + 1 /\ tasks' = tasks \cup {new} /\ refreshing' = TRUE
      /\ view' = view /\ prefs' = prefs /\ saving' = saving /\ chosen' = chosen /\ first' = first /\ shown' = shown
  BY <1>1 DEF Search!Refresh
<1>3. /\ view \in Search!View /\ timer \in BOOLEAN /\ first \in BOOLEAN /\ chosen \in BOOLEAN
      /\ last \in 0..MaxRequests /\ tasks \subseteq Search!Task /\ shown \in Search!Task
  BY DEF SearchInv, Search!RTypeOK
<1>4. /\ new.id = last + 1 /\ new.kind = "refresh" /\ new.ask = [filters |-> view.filters, page |-> n]
      /\ new \in Search!Task
  <2>1. last + 1 \in 0..MaxRequests
    BY <1>2, <1>3 DEF SearchConstants
  <2>2. [filters |-> view.filters, page |-> n] \in [filters : Search!FilterSets, page : Pages]
    BY <1>3 DEF Search!View
  <2> QED
    <3>1. new.ask \in Search!Ask
      BY <1>1, <2>2 DEF Search!Ask
    <3> QED
      BY <1>1, <2>1, <3>1 DEF Search!Task
<1>5. Search!RTypeOK'
  <2>1. last' \in 0..MaxRequests /\ tasks' \subseteq Search!Task
    BY <1>2, <1>3, <1>4 DEF SearchConstants
  <2>2. <<chosen', first', timer', refreshing'>> \in BOOLEAN \X BOOLEAN \X BOOLEAN \X BOOLEAN
    BY <1>2, <1>3
  <2> QED
    BY <1>2, <1>3, <2>1, <2>2 DEF SearchInv, Search!RTypeOK
<1>6. Numbered'
  BY <1>2, <1>3, <1>4, NewestIsNumbered DEF SearchInv, Search!Task
<1>7. NotVisited'
  BY <1>2, <1>3, <1>4 DEF SearchInv, NotVisited
<1>8. \A t \in tasks' \cup {shown'} : IsOfScreen(t)'
  <2>1. \A t \in tasks \cup {shown} : t.id \in Nat /\ t.id <= last
    BY <1>3 DEF SearchInv, Numbered, Search!Task
  <2>2. \A t \in tasks \cup {shown} : t.id # last'
    BY <1>2, <1>3, <2>1
  <2>3. new.ask.filters = view.filters
    BY <1>4
  <2> QED
    BY <1>2, <2>2, <2>3 DEF IsOfScreen
<1> QED
  BY <1>5, <1>6, <1>7, <1>8 DEF SearchInv

LEMMA AnswerKeeps == ASSUME SearchInv, NEW t \in tasks, Search!Answer(t) PROVE SearchInv'
<1>1. /\ tasks' = tasks \ {t} /\ shown' \in {t, shown} /\ refreshing' \in BOOLEAN
      /\ view' = view /\ prefs' = prefs /\ saving' = saving /\ chosen' = chosen /\ first' = first
      /\ timer' = timer /\ last' = last
  BY DEF Search!Answer, SearchInv, Search!RTypeOK
<1>2. Search!RTypeOK'
  BY <1>1 DEF SearchInv, Search!RTypeOK
<1>3. Numbered'
  BY <1>1 DEF SearchInv, Numbered, Search!RTypeOK
<1>4. NotVisited'
  BY <1>1 DEF SearchInv, NotVisited
<1>5. \A u \in tasks' \cup {shown'} : IsOfScreen(u)'
  BY <1>1 DEF SearchInv, IsOfScreen
<1> QED
  BY <1>2, <1>3, <1>4, <1>5 DEF SearchInv

LEMMA SearchStep == ASSUME SearchConstants, SearchInv, Search!RNext \/ UNCHANGED search PROVE SearchInv'
<1>1. /\ view \in Search!View /\ prefs \in [loading : BOOLEAN, model : Models] /\ saving \in Models \cup {None}
      /\ chosen \in BOOLEAN
  BY DEF SearchInv, Search!RTypeOK
<1>2. ASSUME NEW f \in Search!FilterSets PROVE [view EXCEPT !.filters = f] \in Search!View
  BY <1>1 DEF Search!View
<1>3. view.filters \in Search!FilterSets
  BY <1>1 DEF Search!View
<1>4. ASSUME NEW m \in Models, Search!ChangeModel(m) PROVE SearchInv'
  <2>1. [view EXCEPT !.filters.model = m] \in Search!View
    BY <1>1, <1>3 DEF Search!View, Search!FilterSets
  <2> QED
    BY <1>1, <1>4, <2>1, CommitKeeps DEF Search!ChangeModel
<1>5. ASSUME NEW t \in Texts, NEW f \in Families, Search!ChangeFilter(t, f) PROVE SearchInv'
  <2>1. [view EXCEPT !.filters.text = t, !.filters.families = f] \in Search!View
    BY <1>1, <1>3 DEF Search!View, Search!FilterSets
  <2> QED
    BY <1>1, <1>5, <2>1, CommitKeeps DEF Search!ChangeFilter
<1>6. ASSUME NEW s \in Search!Sections, Search!Navigate(s) PROVE SearchInv'
  <2>1. [view EXCEPT !.section = s] \in Search!View
    BY <1>1 DEF Search!View
  <2> QED
    BY <1>1, <1>6, <2>1, CommitKeeps DEF Search!Navigate
<1>7. ASSUME NEW m \in Models, Search!UserDataLoaded(m) PROVE SearchInv'
  BY <1>1, <1>7, CommitKeeps DEF Search!UserDataLoaded
<1>8. ASSUME NEW m \in Models, Search!SavePreferences(m) PROVE SearchInv'
  BY <1>8 DEF Search!SavePreferences, SearchInv, Search!RTypeOK, Numbered, NotVisited, IsOfScreen
<1>9. ASSUME UNCHANGED <<view, prefs, chosen, first, timer, last, tasks, shown, refreshing>>, saving' \in Models \cup {None}
      PROVE  SearchInv'
  BY <1>9 DEF SearchInv, Search!RTypeOK, Numbered, NotVisited, IsOfScreen
<1>10. ASSUME Search!PreferencesSaved PROVE SearchInv'
  <2>1. saving \in Models /\ saving' = None
    BY <1>1, <1>10 DEF Search!PreferencesSaved
  <2>2. [view EXCEPT !.filters.model = saving] \in Search!View
    BY <1>1, <1>3, <2>1 DEF Search!View, Search!FilterSets
  <2>3. [prefs EXCEPT !.model = saving] \in [loading : BOOLEAN, model : Models]
    BY <1>1, <2>1
  <2> QED
    BY <1>9, <1>10, <2>1, <2>2, <2>3, CommitKeeps DEF Search!PreferencesSaved
<1>11. ASSUME Search!SearchIsDue PROVE SearchInv'
  BY <1>11, RefreshKeeps DEF Search!SearchIsDue, SearchConstants
<1>12. ASSUME Search!SearchJobs PROVE SearchInv'
  BY <1>12, RefreshKeeps DEF Search!SearchJobs, SearchConstants
<1>13. ASSUME NEW n \in Pages, Search!ChangePage(n) PROVE SearchInv'
  BY <1>13, RefreshKeeps DEF Search!ChangePage
<1>14. CASE UNCHANGED search
  BY <1>14 DEF search, SearchInv, Search!RTypeOK, Numbered, NotVisited, IsOfScreen
<1> QED
  BY <1>4, <1>5, <1>6, <1>7, <1>8, <1>10, <1>11, <1>12, <1>13, <1>14, AnswerKeeps DEF Search!RNext

\* Only the latest request changes what is shown.
LEMMA ShownStep ==
    ASSUME SearchInv, Search!RNext \/ UNCHANGED search
    PROVE  shown' # shown => shown'.id = last /\ shown.id < last
<1>1. ASSUME NEW t \in tasks, Search!Answer(t), shown' # shown PROVE shown'.id = last /\ shown.id < last
  <2>1. shown' = t /\ t.id = last
    BY <1>1 DEF Search!Answer, Search!Accepted
  <2>2. shown.id \in Nat /\ last \in Nat /\ shown.id <= last /\ shown.id # last
    BY <2>1 DEF SearchInv, Numbered, Search!RTypeOK, Search!Task
  <2> QED
    BY <2>1, <2>2
<1>2. Search!RNext => shown' = shown \/ \E t \in tasks : Search!Answer(t)
  BY ZenonT(60) DEF Search!RNext, Search!ChangeModel, Search!SavePreferences, Search!UserDataLoaded, Search!ChangeFilter, Search!Navigate,
     Search!ChangePage, Search!SearchIsDue, Search!SearchJobs, Search!PreferencesSaved, Search!Commit, Search!Refresh
<1> QED
  BY <1>1, <1>2 DEF search

-----------------------------------------------------------------------------
(* TrackedJobs *)

TrackedConstants ==
    /\ {"saved", "applied"} \subseteq Statuses /\ MaxTasks \in Nat /\ IsFiniteSet(Links) /\ IsFiniteSet(Statuses)
    /\ None \notin Links \cup Statuses \cup {"ok", "conflict"}

IsFeed(s) == s \in Seq(Tracked!Notice) /\ \A i \in DOMAIN s : ~s[i].local
IsMenu(m) ==
    /\ m \in Seq(Tracked!Notice)
    /\ \A i, j \in DOMAIN m : m[i].local /\ i # j => m[i].text # m[j].text

\* What a task may be at, and what it has read by then.
Steps == {<<"load", "list">>, <<"add", "create">>, <<"add", "list">>, <<"move", "update">>, <<"save", "create">>,
          <<"save", "list">>, <<"save", "update">>, <<"feed", "feed">>, <<"clear", "clear">>}
Lists == [old : Seq(Tracked!Job), new : Seq(Tracked!Job)]
IsTask(t) ==
    /\ t = [id |-> t.id, job |-> t.job, call |-> t.call, link |-> t.link, status |-> t.status, reply |-> t.reply,
            read |-> t.read]
    /\ t.reply \in Tracked!Replies /\ <<t.job, t.call>> \in Steps
    /\ t.job \in {"add", "move", "save"} => t.link \in Links /\ t.status \in Statuses
    /\ t.job = "feed" => IsFeed(t.read)
    /\ t.call = "create" \/ (t.call = "list" /\ t.reply # "ok") => t.read \in Seq(Tracked!Job)
    /\ t.call = "list" /\ t.reply = "ok" => t.read \in Lists

Stored == rows \in [Links -> Statuses \cup {None}] /\ sent \subseteq Tracked!Text /\ IsFiniteSet(sent)
OnPage == list \in Seq(Tracked!Job) /\ cache \in Seq(Tracked!Job) /\ offered \subseteq Links /\ begun \in 0..MaxTasks
InMenu == IsMenu(menu)
AtWork == \A t \in works : IsTask(t)
TrackedInv == Stored /\ OnPage /\ InMenu /\ AtWork

LEMMA TrackedOnly == ASSUME NEW s, NEW S PROVE Tracked!Only(s, S) = Only(s, S)
BY Zenon DEF Tracked!Only, Tracked!Ascending, Tracked!InOrder, Tracked!Less, Tracked!Cardinality,
             Only, Ascending, InOrder, Less, Cardinality

LEMMA TrackedInSomeOrder == ASSUME NEW S PROVE Tracked!InSomeOrder(S) = InSomeOrder(S)
BY Zenon DEF Tracked!InSomeOrder, Tracked!Cardinality, Tracked!Entries, InSomeOrder, Cardinality, Entries

LEMMA RowListIsOfJobs == ASSUME TrackedConstants, NEW s, s = Tracked!RowList PROVE s \in Seq(Tracked!Job)
<1>1. PICK S : S = {j \in Tracked!Job : rows[j.link] = j.status}
  OBVIOUS
<1>2. S \subseteq Tracked!Job
  BY <1>1
<1>3. IsFiniteSet(S)
  <2>1. IsFiniteSet(Links \X Statuses)
    BY FS_Product DEF TrackedConstants
  <2>2. PICK f : f = [p \in Links \X Statuses |-> [link |-> p[1], status |-> p[2]]]
    OBVIOUS
  <2>3. f \in Surjection(Links \X Statuses, Tracked!Job)
    <3>1. f \in [Links \X Statuses -> Tracked!Job]
      BY <2>2 DEF Tracked!Job
    <3>2. ASSUME NEW j \in Tracked!Job PROVE \E p \in Links \X Statuses : f[p] = j
      <4>1. <<j.link, j.status>> \in Links \X Statuses /\ j = [link |-> j.link, status |-> j.status]
        BY DEF Tracked!Job
      <4> QED
        BY <2>2, <4>1
    <3> QED
      BY <3>1, <3>2 DEF Surjection
  <2>4. IsFiniteSet(Tracked!Job)
    BY <2>1, <2>3, FS_Surjection
  <2> QED
    BY <1>2, <2>4, FS_Subset
<1>4. IsSomeOrder(s, S)
  <2>1. s = Tracked!InSomeOrder(S)
    BY <1>1 DEF Tracked!RowList
  <2>2. s = InSomeOrder(S)
    BY <2>1, TrackedInSomeOrder
  <2> QED
    BY <1>3, <2>2, SomeOrderLists
<1> QED
  BY <1>2, <1>4 DEF IsSomeOrder

\* The feed is of the notices the server has.
LEMMA FeedIsServed ==
    ASSUME Stored, NEW s, s = Tracked!InSomeOrder({[local |-> FALSE, text |-> x] : x \in sent})
    PROVE  IsFeed(s)
<1>1. PICK S : S = {[local |-> FALSE, text |-> x] : x \in sent}
  OBVIOUS
<1>2. ASSUME NEW n \in S PROVE n \in Tracked!Notice /\ n.local = FALSE
  <2>1. PICK x \in sent : n = [local |-> FALSE, text |-> x]
    BY <1>1
  <2> QED
    BY <2>1 DEF Stored, Tracked!Notice
<1>3. IsFiniteSet(S)
  <2>1. PICK f : f = [x \in sent |-> [local |-> FALSE, text |-> x]]
    OBVIOUS
  <2>2. f \in Surjection(sent, S)
    BY <1>1, <2>1 DEF Surjection
  <2> QED
    BY <2>2, FS_Surjection DEF Stored
<1>4. IsSomeOrder(s, S)
  <2>1. s = InSomeOrder(S)
    BY <1>1, TrackedInSomeOrder
  <2> QED
    BY <1>3, <2>1, SomeOrderLists
<1>5. \A i \in DOMAIN s : s[i] \in S
  BY <1>4 DEF IsSomeOrder
<1>6. s \in Seq(Tracked!Notice)
  <2>1. S \subseteq Tracked!Notice
    BY <1>2
  <2> QED
    BY <1>4, <2>1 DEF IsSomeOrder
<1> QED
  BY <1>2, <1>5, <1>6 DEF IsFeed

\* A local notice takes the place of those that read the same.
LEMMA NotifyKeeps ==
    ASSUME TrackedConstants, InMenu, NEW l \in Links, NEW s \in Statuses, Tracked!Notify(l, s)
    PROVE  InMenu'
<1>1. PICK x : x = [what |-> IF s = "applied" THEN "applied" ELSE "saved", link |-> l]
  OBVIOUS
<1>2. PICK n : n = [local |-> TRUE, text |-> x]
  OBVIOUS
<1>3. n \in Tracked!Notice /\ n.text = x
  BY <1>1, <1>2 DEF Tracked!Notice, Tracked!Text
<1>4. PICK S : S = {m \in Tracked!Notice : m.text # x}
  OBVIOUS
<1>5. PICK p : p = Only(menu, S)
  OBVIOUS
<1>6. menu' = <<n>> \o p
  <2>1. menu' = <<n>> \o Tracked!Only(menu, S)
    BY <1>1, <1>2, <1>4 DEF Tracked!Notify
  <2> QED
    BY <1>5, <2>1, TrackedOnly
<1>7. menu \in Seq(Tracked!Notice)
  BY DEF InMenu, IsMenu
<1>8. Keeps(Tracked!Notice, menu, S, p)
  BY <1>5, <1>7, OnlyKeeps
<1>9. PICK g : p \in Seq(Tracked!Notice) /\ From(p, menu, S, g)
  BY <1>8 DEF Keeps
<1>10. PICK z \in Nat : z = Len(p) /\ DOMAIN p = 1..z
  BY <1>9
<1>11. /\ menu' \in Seq(Tracked!Notice) /\ DOMAIN menu' = 1..z + 1 /\ menu'[1] = n
       /\ \A i \in 2..z + 1 : i - 1 \in 1..z /\ menu'[i] = p[i - 1]
  <2>1. <<n>> \in Seq(Tracked!Notice) /\ Len(<<n>>) = 1 /\ <<n>>[1] = n
    BY <1>3
  <2>2. menu' \in Seq(Tracked!Notice) /\ Len(menu') = 1 + z
    BY <1>6, <1>9, <1>10, <2>1
  <2>3. \A i \in 1..z + 1 : menu'[i] = IF i <= 1 THEN <<n>>[i] ELSE p[i - 1]
    BY <1>6, <1>9, <1>10, <2>1
  <2>4. \A i \in 2..z + 1 : i - 1 \in 1..z /\ i \in 1..z + 1 /\ ~(i <= 1)
    BY ONLY z \in Nat
  <2>5. 1 \in 1..z + 1 /\ 1 <= 1
    BY ONLY z \in Nat
  <2> QED
    BY <2>1, <2>2, <2>3, <2>4, <2>5
<1>12. \A i \in 2..z + 1 : menu'[i].text # x
  BY <1>4, <1>9, <1>10, <1>11 DEF From
<1>13. ASSUME NEW i \in 2..z + 1, NEW j \in 2..z + 1, i # j, menu'[i].local PROVE menu'[i].text # menu'[j].text
  <2>1. PICK a, b : a = i - 1 /\ b = j - 1
    OBVIOUS
  <2>2. a \in 1..z /\ b \in 1..z /\ (a < b \/ b < a)
    BY ONLY <1>13, <2>1, z \in Nat
  <2>3. g[a] \in DOMAIN menu /\ g[b] \in DOMAIN menu /\ p[a] = menu[g[a]] /\ p[b] = menu[g[b]] /\ g[a] # g[b]
    <3>1. g[a] \in DOMAIN menu /\ g[b] \in DOMAIN menu /\ p[a] = menu[g[a]] /\ p[b] = menu[g[b]]
      BY ONLY <1>9, <1>10, <2>2 DEF From
    <3>2. g[a] < g[b] \/ g[b] < g[a]
      BY ONLY <1>9, <1>10, <2>2 DEF From
    <3>3. g[a] \in Nat /\ g[b] \in Nat
      BY ONLY <1>7, <3>1
    <3> QED
      BY ONLY <3>1, <3>2, <3>3
  <2>4. menu'[i] = p[a] /\ menu'[j] = p[b]
    BY <1>11, <2>1
  <2>5. menu[g[a]].local => menu[g[a]].text # menu[g[b]].text
    BY ONLY <2>3, InMenu DEF InMenu, IsMenu
  <2> QED
    BY ONLY <1>13, <2>3, <2>4, <2>5
<1>14. ASSUME NEW i \in 1..z + 1, NEW j \in 1..z + 1, i # j, menu'[i].local PROVE menu'[i].text # menu'[j].text
  <2>1. (i = 1 \/ i \in 2..z + 1) /\ (j = 1 \/ j \in 2..z + 1)
    BY ONLY z \in Nat, i \in 1..z + 1, j \in 1..z + 1
  <2> QED
    BY <1>3, <1>11, <1>12, <1>13, <1>14, <2>1
<1> QED
  BY <1>11, <1>14 DEF InMenu, IsMenu

\* A feed comes after the local notices that it does not repeat.
LEMMA FeedsKeep ==
    ASSUME InMenu, NEW t, IsFeed(t.read), Tracked!FeedsLoaded(t)
    PROVE  InMenu'
<1>1. PICK f : f = t.read
  OBVIOUS
<1>2. PICK S : S = {m \in Tracked!Notice : m.local /\ \A i \in DOMAIN f : f[i].text # m.text}
  OBVIOUS
<1>3. PICK p : p = Only(menu, S)
  OBVIOUS
<1>4. menu' = p \o f
  <2>1. menu' = Tracked!Only(menu, S) \o f
    BY <1>1, <1>2 DEF Tracked!FeedsLoaded
  <2> QED
    BY <1>3, <2>1, TrackedOnly
<1>5. menu \in Seq(Tracked!Notice) /\ f \in Seq(Tracked!Notice)
  BY <1>1 DEF InMenu, IsMenu, IsFeed
<1>6. Keeps(Tracked!Notice, menu, S, p)
  BY <1>3, <1>5, OnlyKeeps
<1>7. PICK g : p \in Seq(Tracked!Notice) /\ From(p, menu, S, g)
  BY <1>6 DEF Keeps
<1>8. PICK y \in Nat : y = Len(p) /\ DOMAIN p = 1..y
  BY <1>7
<1>9. PICK z \in Nat : z = Len(f) /\ DOMAIN f = 1..z
  BY <1>5
<1>10. /\ menu' \in Seq(Tracked!Notice) /\ DOMAIN menu' = 1..y + z
       /\ \A i \in 1..y + z : menu'[i] = IF i <= y THEN p[i] ELSE f[i - y]
  BY <1>4, <1>5, <1>7, <1>8, <1>9
<1>11. ASSUME NEW i \in 1..y + z, NEW j \in 1..y + z, i # j, menu'[i].local PROVE menu'[i].text # menu'[j].text
  <2>1. i \in 1..y
    <3>1. CASE ~(i <= y)
      <4>1. i - y \in 1..z
        BY ONLY <3>1, y \in Nat, z \in Nat, i \in 1..y + z
      <4>2. ~f[i - y].local
        BY <1>1, <1>9, <4>1 DEF IsFeed
      <4> QED
        BY <1>10, <1>11, <3>1, <4>2
    <3>2. CASE i <= y
      BY ONLY <3>2, y \in Nat, i \in 1..y + z
    <3> QED
      BY <3>1, <3>2
  <2>2. menu'[i] = p[i] /\ p[i] \in S
    <3>1. i <= y
      BY ONLY <2>1, y \in Nat
    <3>2. p[i] \in S
      BY ONLY <1>7, <1>8, <2>1 DEF From
    <3> QED
      BY <1>10, <3>1, <3>2
  <2>3. CASE j <= y
    <3>1. j \in 1..y /\ (i < j \/ j < i)
      BY ONLY <1>11, <2>3, y \in Nat, j \in 1..y + z, i \in 1..y + z
    <3>2. g[i] \in DOMAIN menu /\ g[j] \in DOMAIN menu /\ p[i] = menu[g[i]] /\ p[j] = menu[g[j]] /\ (g[i] < g[j] \/ g[j] < g[i])
      BY ONLY <1>7, <1>8, <2>1, <3>1 DEF From
    <3>3. g[i] # g[j]
      <4>1. g[i] \in Nat /\ g[j] \in Nat
        BY ONLY <1>5, <3>2
      <4> QED
        BY ONLY <3>2, <4>1
    <3>4. menu'[j] = p[j]
      BY <1>10, <2>3
    <3>5. menu[g[i]].local => menu[g[i]].text # menu[g[j]].text
      BY ONLY <3>2, <3>3, InMenu DEF InMenu, IsMenu
    <3> QED
      BY ONLY <1>11, <2>2, <3>2, <3>4, <3>5
  <2>4. CASE ~(j <= y)
    <3>1. j - y \in 1..z
      BY ONLY <2>4, y \in Nat, z \in Nat, j \in 1..y + z
    <3>2. menu'[j] = f[j - y]
      BY <1>10, <2>4
    <3> QED
      BY ONLY <1>2, <1>9, <2>2, <3>1, <3>2
  <2> QED
    BY <2>3, <2>4
<1> QED
  BY <1>10, <1>11 DEF InMenu, IsMenu

LEMMA WorkChanges == ASSUME AtWork, NEW u, IsTask(u), works' \subseteq works \cup {u} PROVE AtWork'
BY DEF AtWork

NewTask(n, job, call, link, now, read) ==
    [id |-> n, job |-> job, call |-> call, link |-> link, status |-> now, reply |-> None, read |-> read]

LEMMA StartKeeps ==
    ASSUME TrackedConstants, AtWork, OnPage, NEW job, NEW call, NEW link, NEW now, NEW read,
           Tracked!Start(job, call, link, now, read), <<job, call>> \in Steps,
           job \in {"add", "move", "save"} => link \in Links /\ now \in Statuses,
           read \in Seq(Tracked!Job), job = "feed" => read = <<>>
    PROVE  AtWork' /\ begun' \in 0..MaxTasks
<1>1. PICK u : u = NewTask(begun + 1, job, call, link, now, read)
  OBVIOUS
<1>2. /\ u.id = begun + 1 /\ u.job = job /\ u.call = call /\ u.link = link /\ u.status = now /\ u.reply = None /\ u.read = read
      /\ u = [id |-> u.id, job |-> u.job, call |-> u.call, link |-> u.link, status |-> u.status, reply |-> u.reply, read |-> u.read]
  BY <1>1 DEF NewTask
<1>3. None # "ok"
  BY DEF TrackedConstants
<1>4. job = "feed" => IsFeed(read)
  BY DEF IsFeed
<1>5. IsTask(u)
  BY <1>2, <1>3, <1>4 DEF IsTask, Tracked!Replies
<1>6. begun < MaxTasks /\ begun' = begun + 1 /\ works' = works \cup {u}
  BY <1>1 DEF Tracked!Start, NewTask
<1>7. AtWork'
  BY <1>5, <1>6, WorkChanges
<1>8. begun' \in 0..MaxTasks
  BY <1>6 DEF TrackedConstants, OnPage
<1> QED
  BY <1>7, <1>8

\* Another call of the same task.
LEMMA CallKeeps ==
    ASSUME TrackedConstants, AtWork, NEW t \in works, NEW call, Tracked!Call(t, call), <<t.job, call>> \in Steps,
           call = "list" => t.call = "create", t.job \in {"add", "save"}, call \in {"list", "update"}
    PROVE  AtWork'
<1>1. IsTask(t)
  BY DEF AtWork
<1>2. PICK u : u = [t EXCEPT !.call = call, !.reply = None]
  OBVIOUS
<1>3. /\ u.job = t.job /\ u.call = call /\ u.link = t.link /\ u.status = t.status /\ u.reply = None /\ u.read = t.read
      /\ u = [id |-> u.id, job |-> u.job, call |-> u.call, link |-> u.link, status |-> u.status, reply |-> u.reply, read |-> u.read]
  <2>1. PICK id, job, c, link, now, reply, read :
            t = [id |-> id, job |-> job, call |-> c, link |-> link, status |-> now, reply |-> reply, read |-> read]
    BY <1>1 DEF IsTask
  <2>2. u = [id |-> id, job |-> job, call |-> call, link |-> link, status |-> now, reply |-> None, read |-> read]
    BY <1>2, <2>1
  <2> QED
    BY <2>1, <2>2
<1>4. None # "ok"
  BY DEF TrackedConstants
<1>5. IsTask(u)
  BY <1>1, <1>3, <1>4 DEF IsTask, Tracked!Replies
<1> QED
  BY <1>2, <1>5, WorkChanges DEF Tracked!Call

\* The reply to a call, with what it read.
LEMMA ReplyKeeps ==
    ASSUME AtWork, NEW t \in works, NEW reply \in {"ok", "conflict"}, NEW read, Tracked!Reply(t, reply, read),
           t.job = "feed" => IsFeed(read),
           t.call = "create" => read \in Seq(Tracked!Job),
           t.call = "list" => reply = "ok" /\ read \in Lists
    PROVE  AtWork'
<1>1. IsTask(t)
  BY DEF AtWork
<1>2. PICK u : u = [t EXCEPT !.reply = reply, !.read = read]
  OBVIOUS
<1>3. /\ u.job = t.job /\ u.call = t.call /\ u.link = t.link /\ u.status = t.status /\ u.reply = reply /\ u.read = read
      /\ u = [id |-> u.id, job |-> u.job, call |-> u.call, link |-> u.link, status |-> u.status, reply |-> u.reply, read |-> u.read]
  <2>1. PICK id, job, c, link, now, reply0, read0 :
            t = [id |-> id, job |-> job, call |-> c, link |-> link, status |-> now, reply |-> reply0, read |-> read0]
    BY <1>1 DEF IsTask
  <2>2. u = [id |-> id, job |-> job, call |-> c, link |-> link, status |-> now, reply |-> reply, read |-> read]
    BY <1>2, <2>1
  <2> QED
    BY <2>1, <2>2
<1>4. IsTask(u)
  BY <1>1, <1>3 DEF IsTask, Tracked!Replies
<1> QED
  BY <1>2, <1>4, WorkChanges DEF Tracked!Reply

LEMMA EndKeeps == ASSUME AtWork, NEW t, Tracked!End(t) PROVE AtWork'
BY DEF AtWork, Tracked!End

LEMMA ServeKeeps == ASSUME TrackedConstants, TrackedInv, NEW t \in works, Tracked!Serve(t) PROVE TrackedInv'
<1>1. IsTask(t)
  BY DEF TrackedInv, AtWork
<1>2. OnPage' /\ InMenu'
  BY DEF TrackedInv, OnPage, InMenu, Tracked!Serve
<1>3. t.reply # "ok"
  BY DEF Tracked!Serve, TrackedConstants
<1>4. t.call \in {"create", "update"} => t.link \in Links /\ t.status \in Statuses /\ t.job # "feed"
  BY <1>1 DEF IsTask, Steps
<1>5. t.call = "create" \/ t.call = "list" => t.read \in Seq(Tracked!Job)
  BY <1>1, <1>3 DEF IsTask
<1>6. AtWork
  BY DEF TrackedInv
<1>7. ASSUME NEW what, Tracked!SetRow(t, what), t.link \in Links, t.status \in Statuses, what \subseteq Tracked!Text,
             IsFiniteSet(what)
      PROVE  Stored'
  <2>1. rows' \in [Links -> Statuses \cup {None}]
    BY <1>7 DEF Tracked!SetRow, TrackedInv, Stored
  <2>2. sent' \subseteq Tracked!Text /\ IsFiniteSet(sent')
    BY <1>7, FS_Union DEF Tracked!SetRow, TrackedInv, Stored
  <2> QED
    BY <2>1, <2>2 DEF Stored
<1>8. ASSUME UNCHANGED <<rows, sent>> PROVE Stored'
  BY <1>8 DEF TrackedInv, Stored
<1>9. CASE t.call = "create" /\ Tracked!Reply(t, "ok", t.read)
           /\ Tracked!SetRow(t, {[what |-> IF t.status = "applied" THEN "applied" ELSE "saved", link |-> t.link]})
  <2>1. PICK x : x = [what |-> IF t.status = "applied" THEN "applied" ELSE "saved", link |-> t.link]
    OBVIOUS
  <2>2. x \in Tracked!Text
    BY <1>4, <1>9, <2>1 DEF Tracked!Text
  <2>3. IsFiniteSet({x})
    BY FS_Singleton
  <2>4. Stored'
    BY <1>4, <1>7, <1>9, <2>1, <2>2, <2>3
  <2>5. AtWork'
    BY <1>4, <1>5, <1>6, <1>9, ReplyKeeps
  <2> QED
    BY <1>2, <2>4, <2>5 DEF TrackedInv
<1>10. CASE t.call = "create" /\ Tracked!Reply(t, "conflict", t.read) /\ UNCHANGED <<rows, sent>>
  <2>1. AtWork'
    BY <1>4, <1>5, <1>6, <1>10, ReplyKeeps
  <2> QED
    BY <1>2, <1>8, <1>10, <2>1 DEF TrackedInv
<1>11. CASE t.call = "update" /\ Tracked!Reply(t, "ok", t.read)
            /\ Tracked!SetRow(t, IF rows[t.link] # t.status THEN {[what |-> "changed", link |-> t.link]} ELSE {})
  <2>1. PICK x : x = [what |-> "changed", link |-> t.link]
    OBVIOUS
  <2>2. x \in Tracked!Text
    BY <1>4, <1>11, <2>1 DEF Tracked!Text
  <2>3. IsFiniteSet({x}) /\ IsFiniteSet({})
    BY FS_Singleton, FS_EmptySet
  <2>4. PICK w : w = IF rows[t.link] # t.status THEN {x} ELSE {}
    OBVIOUS
  <2>5. w \subseteq Tracked!Text /\ IsFiniteSet(w)
    BY <2>2, <2>3, <2>4
  <2>6. Stored'
    BY <1>4, <1>7, <1>11, <2>1, <2>4, <2>5
  <2>7. AtWork'
    BY <1>4, <1>6, <1>11, ReplyKeeps
  <2> QED
    BY <1>2, <2>6, <2>7 DEF TrackedInv
<1>12. CASE t.call = "list" /\ Tracked!Reply(t, "ok", [old |-> t.read, new |-> Tracked!RowList]) /\ UNCHANGED <<rows, sent>>
  <2>1. PICK s : s = Tracked!RowList
    OBVIOUS
  <2>2. s \in Seq(Tracked!Job)
    BY <2>1, RowListIsOfJobs
  <2>3. PICK r : r = [old |-> t.read, new |-> s]
    OBVIOUS
  <2>4. r \in Lists
    BY <1>5, <1>12, <2>2, <2>3 DEF Lists
  <2>5. t.job # "feed" /\ t.call # "create"
    BY <1>1, <1>12 DEF IsTask, Steps
  <2>6. AtWork'
    BY <1>6, <1>12, <2>1, <2>3, <2>4, <2>5, ReplyKeeps
  <2> QED
    BY <1>2, <1>8, <1>12, <2>6 DEF TrackedInv
<1>13. CASE t.call = "feed" /\ Tracked!Reply(t, "ok", Tracked!InSomeOrder({[local |-> FALSE, text |-> x] : x \in sent}))
            /\ UNCHANGED <<rows, sent>>
  <2>1. PICK s : s = Tracked!InSomeOrder({[local |-> FALSE, text |-> x] : x \in sent})
    OBVIOUS
  <2>2. IsFeed(s)
    BY <2>1, FeedIsServed DEF TrackedInv
  <2>3. AtWork'
    BY <1>6, <1>13, <2>1, <2>2, ReplyKeeps
  <2> QED
    BY <1>2, <1>8, <1>13, <2>3 DEF TrackedInv
<1>14. CASE t.call = "clear" /\ sent' = {} /\ Tracked!Reply(t, "ok", t.read) /\ UNCHANGED rows
  <2>1. t.job # "feed"
    BY <1>1, <1>14 DEF IsTask, Steps
  <2>2. AtWork'
    BY <1>6, <1>14, <2>1, ReplyKeeps
  <2>3. Stored'
    BY <1>14, FS_EmptySet DEF TrackedInv, Stored
  <2> QED
    BY <1>2, <2>2, <2>3 DEF TrackedInv
<1> QED
  BY <1>9, <1>10, <1>11, <1>12, <1>13, <1>14 DEF Tracked!Serve

\* What the page does when a task ends: it shows jobs, offers fewer, or tells of one.
LEMMA KeepKeeps ==
    ASSUME TrackedConstants, TrackedInv, NEW t \in works, t.link \in Links, t.status \in Statuses, Tracked!Keep(t, t.status),
           UNCHANGED begun
    PROVE  OnPage' /\ InMenu' /\ AtWork'
<1>1. PICK j : j = [link |-> t.link, status |-> t.status]
  OBVIOUS
<1>2. j \in Tracked!Job
  BY <1>1 DEF Tracked!Job
<1>3. list \in Seq(Tracked!Job)
  BY DEF TrackedInv, OnPage
<1>4. PICK p : p = Only(list, {i \in Tracked!Job : i.link # t.link})
  OBVIOUS
<1>5. p \in Seq(Tracked!Job)
  BY <1>3, <1>4, OnlyKeeps DEF Keeps
<1>6. list' = <<j>> \o p /\ cache' = list'
  BY <1>1, <1>4, TrackedOnly DEF Tracked!Keep, Tracked!Show
<1>7. list' \in Seq(Tracked!Job)
  BY <1>2, <1>5, <1>6
<1>8. offered' \subseteq Links
  BY DEF Tracked!Keep, TrackedInv, OnPage
<1>9. InMenu'
  <2>1. PICK s \in Statuses : s = IF t.status = "applied" THEN t.status ELSE t.status
    OBVIOUS
  <2>2. Tracked!Notify(t.link, s)
    BY <2>1 DEF Tracked!Keep
  <2> QED
    BY <2>2, NotifyKeeps DEF TrackedInv
<1>10. AtWork'
  BY EndKeeps DEF Tracked!Keep, TrackedInv
<1> QED
  BY <1>6, <1>7, <1>8, <1>9, <1>10 DEF OnPage, TrackedInv, Tracked!Keep

LEMMA TrackedStep == ASSUME TrackedConstants, TrackedInv, Tracked!TNext \/ UNCHANGED tracked PROVE TrackedInv'
<1>1. list \in Seq(Tracked!Job) /\ cache \in Seq(Tracked!Job) /\ <<>> \in Seq(Tracked!Job) /\ OnPage /\ AtWork
  BY DEF TrackedInv, OnPage
<1>2. ASSUME UNCHANGED <<rows, sent, cache, offered>>, AtWork' /\ begun' \in 0..MaxTasks, list' \in Seq(Tracked!Job), IsMenu(menu')
      PROVE  TrackedInv'
  BY <1>1, <1>2 DEF TrackedInv, Stored, OnPage, InMenu
<1>3. ASSUME Tracked!LoadJobs PROVE TrackedInv'
  <2>1. Tracked!Start("load", "list", None, None, cache)
    BY <1>3 DEF Tracked!LoadJobs
  <2>2. AtWork' /\ begun' \in 0..MaxTasks
    BY <1>1, <2>1, StartKeeps DEF Steps
  <2>3. list' \in Seq(Tracked!Job)
    BY <1>1, <1>3 DEF Tracked!LoadJobs
  <2> QED
    BY <1>2, <1>3, <2>2, <2>3 DEF Tracked!LoadJobs, TrackedInv, InMenu
<1>4. ASSUME Tracked!LoadFeeds PROVE TrackedInv'
  <2>1. Tracked!Start("feed", "feed", None, None, <<>>)
    BY <1>4 DEF Tracked!LoadFeeds
  <2>2. AtWork' /\ begun' \in 0..MaxTasks
    BY <1>1, <2>1, StartKeeps DEF Steps
  <2> QED
    BY <1>1, <1>2, <1>4, <2>2 DEF Tracked!LoadFeeds, TrackedInv, InMenu
<1>5. IsMenu(<<>>)
  BY DEF IsMenu
<1>6. ASSUME Tracked!ClearMenu PROVE TrackedInv'
  <2>1. Tracked!Start("clear", "clear", None, None, <<>>)
    BY <1>6 DEF Tracked!ClearMenu
  <2>2. AtWork' /\ begun' \in 0..MaxTasks
    BY <1>1, <2>1, StartKeeps DEF Steps
  <2> QED
    BY <1>1, <1>2, <1>5, <1>6, <2>2 DEF Tracked!ClearMenu
<1>7. ASSUME NEW l \in Links, Tracked!AddTrackedJob(l) PROVE TrackedInv'
  <2>1. Tracked!Start("add", "create", l, "saved", <<>>)
    BY <1>7 DEF Tracked!AddTrackedJob
  <2>2. AtWork' /\ begun' \in 0..MaxTasks
    BY <1>1, <2>1, StartKeeps DEF Steps, TrackedConstants
  <2> QED
    BY <1>1, <1>2, <1>7, <2>2 DEF Tracked!AddTrackedJob, TrackedInv, InMenu
<1>8. ASSUME NEW l \in Links, NEW s \in Statuses, Tracked!ChangeJobStatus(l, s) PROVE TrackedInv'
  <2>1. Tracked!Start("move", "update", l, s, <<>>) \/ Tracked!Start("save", "create", l, s, <<>>)
    BY <1>8 DEF Tracked!ChangeJobStatus
  <2>2. AtWork' /\ begun' \in 0..MaxTasks
    BY <1>1, <2>1, StartKeeps DEF Steps
  <2> QED
    BY <1>1, <1>2, <1>8, <2>2 DEF Tracked!ChangeJobStatus, TrackedInv, InMenu
<1>9. ASSUME UNCHANGED <<rows, sent, begun>>, list' \in Seq(Tracked!Job), cache' \in Seq(Tracked!Job), offered' = offered,
             InMenu', AtWork'
      PROVE  TrackedInv'
  BY <1>1, <1>9 DEF TrackedInv, Stored, OnPage
<1>10. ASSUME NEW t \in works PROVE IsTask(t)
  BY <1>1 DEF AtWork
<1>11. ASSUME NEW t \in works, Tracked!End(t) PROVE AtWork'
  BY <1>1, <1>11, EndKeeps
<1>12. ASSUME UNCHANGED menu PROVE InMenu'
  BY <1>12 DEF TrackedInv, InMenu
<1>13. ASSUME NEW t \in works, Tracked!JobsLoaded(t) PROVE TrackedInv'
  <2>1. t.read \in Lists
    BY <1>10, <1>13 DEF IsTask, Steps, Tracked!JobsLoaded, Tracked!Got
  <2>2. t.read.old \in Seq(Tracked!Job) /\ t.read.new \in Seq(Tracked!Job)
    BY <2>1 DEF Lists
  <2>3. list' \in Seq(Tracked!Job) /\ cache' \in Seq(Tracked!Job)
    BY <1>1, <1>13, <2>2 DEF Tracked!JobsLoaded, Tracked!Show
  <2> QED
    BY <1>9, <1>11, <1>12, <1>13, <2>3 DEF Tracked!JobsLoaded
<1>14. ASSUME NEW t \in works, Tracked!JobAdded(t) PROVE TrackedInv'
  <2>1. t.link \in Links /\ t.status \in Statuses /\ t.job = "add" /\ t.call = "create"
    BY <1>10, <1>14 DEF IsTask, Tracked!JobAdded
  <2>2. CASE Tracked!End(t) /\ Tracked!Show(<<[link |-> t.link, status |-> t.status]>> \o list) /\ Tracked!Notify(t.link, t.status)
    <3>1. PICK j : j = [link |-> t.link, status |-> t.status]
      OBVIOUS
    <3>2. j \in Tracked!Job
      BY <2>1, <3>1 DEF Tracked!Job
    <3>3. list' = <<j>> \o list /\ cache' = list'
      BY <2>2, <3>1 DEF Tracked!Show
    <3>4. list' \in Seq(Tracked!Job)
      BY <1>1, <3>2, <3>3
    <3>5. InMenu'
      BY <2>1, <2>2, NotifyKeeps DEF TrackedInv
    <3> QED
      BY <1>9, <1>11, <1>14, <2>2, <3>3, <3>4, <3>5 DEF Tracked!JobAdded
  <2>3. CASE Tracked!Call(t, "list") /\ UNCHANGED <<list, cache, menu>>
    <3>1. AtWork'
      BY <1>1, <2>1, <2>3, CallKeeps DEF Steps
    <3> QED
      BY <1>1, <1>9, <1>12, <1>14, <2>3, <3>1 DEF Tracked!JobAdded
  <2> QED
    BY <1>14, <2>2, <2>3 DEF Tracked!JobAdded
<1>15. ASSUME NEW t \in works, Tracked!AddedBefore(t) PROVE TrackedInv'
  <2>1. t.read \in Lists
    BY <1>10, <1>15 DEF IsTask, Tracked!AddedBefore, Tracked!Got
  <2>2. t.read.new \in Seq(Tracked!Job)
    BY <2>1 DEF Lists
  <2>3. list' \in Seq(Tracked!Job) /\ cache' \in Seq(Tracked!Job)
    BY <1>15, <2>2 DEF Tracked!AddedBefore, Tracked!Show
  <2> QED
    BY <1>9, <1>11, <1>12, <1>15, <2>3 DEF Tracked!AddedBefore
<1>16. ASSUME NEW t \in works, Tracked!JobMoved(t) PROVE TrackedInv'
  <2>1. t.link \in Links /\ t.status \in Statuses
    BY <1>10, <1>16 DEF IsTask, Tracked!JobMoved
  <2>2. PICK n \in Nat : n = Len(list) /\ DOMAIN list = 1..n /\ \A i \in 1..n : list[i] \in Tracked!Job
    BY <1>1
  <2>3. list' = [i \in 1..n |-> IF list[i].link = t.link THEN [list[i] EXCEPT !.status = t.status] ELSE list[i]] /\ cache' = list'
    BY <1>16, <2>2 DEF Tracked!JobMoved, Tracked!Show
  <2>4. ASSUME NEW i \in 1..n PROVE [list[i] EXCEPT !.status = t.status] \in Tracked!Job
    BY <2>1, <2>2 DEF Tracked!Job
  <2>5. list' \in [1..n -> Tracked!Job]
    BY ONLY <2>2, <2>3, <2>4
  <2>6. list' \in Seq(Tracked!Job)
    BY <2>5
  <2>7. InMenu'
    BY <1>16, <2>1, NotifyKeeps DEF Tracked!JobMoved, TrackedInv
  <2> QED
    BY <1>9, <1>11, <1>16, <2>3, <2>6, <2>7 DEF Tracked!JobMoved
<1>17. ASSUME NEW t \in works, Tracked!JobSaved(t) PROVE TrackedInv'
  <2>1. t.link \in Links /\ t.status \in Statuses /\ t.job = "save"
    BY <1>10, <1>17 DEF IsTask, Tracked!JobSaved
  <2>2. CASE Tracked!Keep(t, t.status)
    <3>1. OnPage' /\ InMenu' /\ AtWork'
      BY <1>17, <2>1, <2>2, KeepKeeps DEF Tracked!JobSaved
    <3> QED
      BY <1>17, <3>1 DEF TrackedInv, Stored, Tracked!JobSaved
  <2>3. CASE t.call = "create" /\ Tracked!Call(t, "list") /\ UNCHANGED <<list, cache, offered, menu>>
    <3>1. AtWork'
      BY <1>1, <2>1, <2>3, CallKeeps DEF Steps
    <3> QED
      BY <1>1, <1>9, <1>12, <1>17, <2>3, <3>1 DEF Tracked!JobSaved
  <2>4. CASE Tracked!Call(t, "update") /\ UNCHANGED <<list, cache, offered, menu>>
    <3>1. AtWork'
      BY <1>1, <2>1, <2>4, CallKeeps DEF Steps
    <3> QED
      BY <1>1, <1>9, <1>12, <1>17, <2>4, <3>1 DEF Tracked!JobSaved
  <2> QED
    BY <1>17, <2>2, <2>3, <2>4 DEF Tracked!JobSaved
<1>18. ASSUME NEW t \in works, Tracked!FeedsLoaded(t) PROVE TrackedInv'
  <2>1. IsFeed(t.read)
    BY <1>10, <1>18 DEF IsTask, Tracked!FeedsLoaded
  <2>2. InMenu'
    BY <1>18, <2>1, FeedsKeep DEF TrackedInv
  <2> QED
    BY <1>1, <1>9, <1>11, <1>18, <2>2 DEF Tracked!FeedsLoaded
<1>19. ASSUME NEW t \in works, Tracked!Failed(t) PROVE TrackedInv'
  <2>1. InMenu'
    BY <1>5, <1>19 DEF Tracked!Failed, TrackedInv, InMenu
  <2> QED
    BY <1>1, <1>9, <1>11, <1>19, <2>1 DEF Tracked!Failed
<1>20. CASE UNCHANGED tracked
  BY <1>20 DEF tracked, TrackedInv, Stored, OnPage, InMenu, AtWork
<1> QED
  BY <1>3, <1>4, <1>6, <1>7, <1>8, <1>13, <1>14, <1>15, <1>16, <1>17, <1>18, <1>19, <1>20, ServeKeeps DEF Tracked!TNext

LEMMA TrackedStart == ASSUME TrackedConstants, Tracked!TInit PROVE TrackedInv
<1>1. PICK saved \in SUBSET Links : rows = [l \in Links |-> IF l \in saved THEN "saved" ELSE None]
  BY DEF Tracked!TInit
<1>2. Stored
  <2>1. rows \in [Links -> Statuses \cup {None}]
    BY <1>1 DEF TrackedConstants
  <2> QED
    BY <2>1, FS_EmptySet DEF Stored, Tracked!TInit
<1>3. OnPage
  <2>1. PICK s : s = Tracked!RowList
    OBVIOUS
  <2>2. s \in Seq(Tracked!Job) /\ <<>> \in Seq(Tracked!Job)
    BY <2>1, RowListIsOfJobs
  <2>3. cache \in Seq(Tracked!Job) /\ list = <<>> /\ offered = Links /\ begun = 0
    BY <2>1, <2>2 DEF Tracked!TInit
  <2> QED
    BY <2>2, <2>3 DEF OnPage, TrackedConstants
<1>4. InMenu
  BY DEF InMenu, IsMenu, Tracked!TInit
<1>5. AtWork
  BY DEF AtWork, Tracked!TInit
<1> QED
  BY <1>2, <1>3, <1>4, <1>5 DEF TrackedInv

-----------------------------------------------------------------------------
(* PanelNotices *)

BellConstants == {ListMost, StackMost, MaxOpens, MaxRequests} \subseteq Nat \ {0}

\* The notices whose time runs are those that were raised last, and those over the page are
\* of them, the newest first: as each is older than the one before, whoever is dropped has
\* as many above as fit.
Timed == timers \in Seq(Nat) /\ Len(timers) <= raised /\ \A i \in DOMAIN timers : timers[i] = raised - Len(timers) + i
IsStack(s, n) ==
    /\ s \in Seq(Nat) /\ Len(s) <= StackMost
    /\ \A i \in DOMAIN s : s[i] \in 1..n /\ s[i] <= n + 1 - i
    /\ \A i, j \in DOMAIN s : i < j => s[i] > s[j]
TimeRuns(id) == \E i \in DOMAIN timers : timers[i] = id
IsOver(id) == \E i \in DOMAIN stack : stack[i] = id

Words == STRING \cup {"healthy", "unavailable"}
BellList == [open : BOOLEAN, loading : BOOLEAN, list : Seq(Words), of : Nat]
\* The bell and the notices over the page share nothing.
Listed ==
    /\ bell \in BellList /\ Len(bell.list) <= ListMost /\ bell.of <= opening
    /\ opening \in 0..MaxOpens /\ replies \subseteq 1..opening
    /\ bell.open /\ ~bell.loading => bell.of = opening /\ bell.list # <<>>
Raised ==
    /\ raised \in 0..MaxRequests /\ closed \subseteq 1..raised /\ Timed /\ IsStack(stack, raised)
    /\ \A id \in 1..raised : IsOver(id) => TimeRuns(id) /\ id \notin closed
    /\ \A id \in 1..raised : TimeRuns(id) /\ id \notin closed /\ raised - id < StackMost => IsOver(id)
BellInv == Listed /\ Raised

LEMMA BellOnly == ASSUME NEW s, NEW S PROVE Bell!Only(s, S) = Only(s, S)
BY Zenon DEF Bell!Only, Bell!Ascending, Bell!InOrder, Bell!Less, Bell!Cardinality,
             Only, Ascending, InOrder, Less, Cardinality

\* A notice that is raised is on top; the last makes place for it when all places are taken.
LEMMA NotifyPuts ==
    ASSUME BellConstants, raised \in Nat, IsStack(stack, raised), Bell!Notify
    PROVE  /\ IsStack(stack', raised + 1)
           /\ \A id : IsOver(id)' => id = raised + 1 \/ IsOver(id)
           /\ \A id : id = raised + 1 \/ (IsOver(id) /\ raised + 1 - id < StackMost) => IsOver(id)'
<1>1. PICK r \in Nat : r = raised + 1
  OBVIOUS
<1>2. PICK s : s = <<r>> \o stack
  OBVIOUS
<1>3. PICK z \in Nat : z = Len(stack) /\ DOMAIN stack = 1..z /\ z <= StackMost /\ StackMost \in Nat \ {0}
  BY DEF IsStack, BellConstants
<1>4. s \in Seq(Nat) /\ Len(s) = z + 1 /\ s[1] = r /\ \A i \in 1..z : s[i + 1] = stack[i]
  <2>1. stack \in Seq(Nat) /\ <<r>> \in Seq(Nat) /\ Len(<<r>>) = 1 /\ <<r>>[1] = r
    BY DEF IsStack
  <2>2. s \in Seq(Nat) /\ Len(s) = 1 + z /\ \A i \in 1..z + 1 : s[i] = IF i <= 1 THEN <<r>>[i] ELSE stack[i - 1]
    BY <1>2, <1>3, <2>1
  <2>3. \A i \in 1..z : i + 1 \in 1..z + 1 /\ ~(i + 1 <= 1) /\ i + 1 - 1 = i
    BY ONLY z \in Nat
  <2>4. 1 \in 1..z + 1 /\ 1 <= 1
    BY ONLY z \in Nat
  <2>5. s[1] = r
    BY <2>1, <2>2, <2>4
  <2>6. \A i \in 1..z : s[i + 1] = stack[i]
    BY <2>2, <2>3
  <2> QED
    BY <2>2, <2>5, <2>6
<1>5. PICK m \in Nat : m = IF z + 1 > StackMost THEN StackMost ELSE z + 1
  BY <1>3
<1>6. stack' = SubSeq(s, 1, m) /\ m <= z + 1 /\ 1 <= m /\ m <= StackMost
  BY <1>1, <1>2, <1>3, <1>4, <1>5 DEF Bell!Notify, Bell!KeepNewest
<1>7. PICK t : t = stack'
  OBVIOUS
<1>8. t \in Seq(Nat) /\ Len(t) = m /\ DOMAIN t = 1..m /\ \A i \in 1..m : t[i] = s[i]
  BY <1>3, <1>4, <1>5, <1>6, <1>7
<1>9. t[1] = r /\ \A i \in 2..m : i - 1 \in 1..z /\ t[i] = stack[i - 1]
  <2>1. 1 \in 1..m /\ \A i \in 2..m : i \in 1..m /\ i - 1 \in 1..z /\ i - 1 + 1 = i
    BY ONLY <1>3, <1>6, m \in Nat
  <2> QED
    BY <1>4, <1>8, <2>1
<1>10. \A i \in 1..z : stack[i] \in 1..raised /\ stack[i] <= raised + 1 - i
  BY <1>3 DEF IsStack
<1>11. ASSUME NEW i \in 1..m PROVE t[i] \in 1..r /\ t[i] <= r + 1 - i
  <2>1. CASE i = 1
    BY <1>1, <1>9, <2>1
  <2>2. CASE i # 1
    <3>1. i \in 2..m
      BY ONLY <2>2, m \in Nat, i \in 1..m
    <3>2. PICK k \in 1..z : k = i - 1 /\ t[i] = stack[k]
      BY <1>9, <3>1
    <3>3. stack[k] \in 1..raised /\ stack[k] <= raised + 1 - k
      BY <1>10
    <3> QED
      BY ONLY <1>1, <3>2, <3>3, i \in 1..m, m \in Nat, raised \in Nat
  <2> QED
    BY <2>1, <2>2
<1>12. ASSUME NEW i \in 1..m, NEW j \in 1..m, i < j PROVE t[i] > t[j]
  <2>1. j \in 2..m
    BY ONLY <1>12, m \in Nat
  <2>2. PICK b \in 1..z : b = j - 1 /\ t[j] = stack[b]
    BY <1>9, <2>1
  <2>3. CASE i = 1
    <3>1. stack[b] \in 1..raised
      BY <1>10
    <3> QED
      BY ONLY <1>1, <1>9, <2>2, <2>3, <3>1, raised \in Nat
  <2>4. CASE i # 1
    <3>1. i \in 2..m
      BY ONLY <2>4, m \in Nat, i \in 1..m
    <3>2. PICK a \in 1..z : a = i - 1 /\ t[i] = stack[a]
      BY <1>9, <3>1
    <3>3. a < b
      BY ONLY <1>12, <2>2, <3>2, m \in Nat
    <3>4. stack[a] > stack[b]
      BY <1>3, <3>3 DEF IsStack
    <3> QED
      BY ONLY <2>2, <3>2, <3>4
  <2> QED
    BY <2>3, <2>4
<1>13. IsStack(t, r)
  BY <1>6, <1>8, <1>11, <1>12 DEF IsStack
<1>14. ASSUME NEW id, NEW i \in 1..m, t[i] = id, id # r PROVE \E k \in 1..z : stack[k] = id
  <2>1. i \in 2..m
    BY ONLY <1>9, <1>14, m \in Nat
  <2> QED
    BY ONLY <1>9, <1>14, <2>1
<1>15. ASSUME NEW k \in 1..z, r - stack[k] < StackMost PROVE \E i \in 1..m : t[i] = stack[k]
  <2>1. stack[k] \in 1..raised /\ stack[k] <= raised + 1 - k
    BY <1>10
  <2>2. k + 1 <= StackMost
    BY ONLY <1>1, <1>3, <1>15, <2>1, raised \in Nat
  <2>3. k + 1 \in 2..m /\ k + 1 - 1 = k
    BY ONLY <1>3, <1>5, <2>2, m \in Nat, z \in Nat
  <2>4. t[k + 1] = stack[k]
    BY <1>9, <2>3
  <2>5. k + 1 \in 1..m
    BY ONLY <2>3, m \in Nat
  <2> QED
    BY ONLY <2>4, <2>5
<1>16. 1 \in 1..m
  BY ONLY <1>6, m \in Nat
<1>17. \A id : IsOver(id) <=> \E k \in 1..z : stack[k] = id
  BY <1>3 DEF IsOver
<1>18. \A id : IsOver(id)' <=> \E i \in 1..m : t[i] = id
  BY <1>7, <1>8 DEF IsOver
<1>19. ASSUME NEW id, IsOver(id)' PROVE id = raised + 1 \/ IsOver(id)
  BY <1>1, <1>14, <1>17, <1>18, <1>19
<1>20. ASSUME NEW id, id = raised + 1 \/ (IsOver(id) /\ raised + 1 - id < StackMost) PROVE IsOver(id)'
  <2>1. \E i \in 1..m : t[i] = id
    <3>1. CASE id = raised + 1
      BY ONLY <1>1, <1>9, <1>16, <3>1
    <3>2. CASE IsOver(id) /\ raised + 1 - id < StackMost
      <4>1. PICK k \in 1..z : stack[k] = id
        BY <1>17, <3>2
      <4>2. r - stack[k] < StackMost
        <5>1. raised + 1 - id < StackMost
          BY ONLY <3>2
        <5>2. stack[k] \in Nat
          BY <1>10
        <5> QED
          BY ONLY <1>1, <4>1, <5>1, <5>2, raised \in Nat
      <4>3. \E i \in 1..m : t[i] = stack[k]
        BY <1>15, <4>2
      <4> QED
        BY ONLY <4>1, <4>3
    <3> QED
      BY <1>20, <3>1, <3>2
  <2> QED
    BY <1>18, <2>1
<1>21. IsStack(stack', raised + 1)
  BY ONLY <1>1, <1>7, <1>13
<1>22. \A id : IsOver(id)' => id = raised + 1 \/ IsOver(id)
  BY ONLY <1>19 DEF IsOver
<1>23. \A id : id = raised + 1 \/ (IsOver(id) /\ raised + 1 - id < StackMost) => IsOver(id)'
  BY ONLY <1>20 DEF IsOver
<1> QED
  BY ONLY <1>21, <1>22, <1>23

\* One that goes leaves the others as they are.
LEMMA WithoutKeeps ==
    ASSUME BellConstants, IsStack(stack, raised), raised \in Nat, NEW id, stack' = Bell!Without(id)
    PROVE  /\ IsStack(stack', raised)
           /\ \A n : IsOver(n)' <=> IsOver(n) /\ n # id
<1>1. PICK S : S = (1..raised) \ {id}
  OBVIOUS
<1>2. PICK p : p = Only(stack, S)
  OBVIOUS
<1>3. stack' = p
  BY <1>1, <1>2, BellOnly DEF Bell!Without
<1>4. PICK z \in Nat : z = Len(stack) /\ DOMAIN stack = 1..z /\ stack \in Seq(Nat) /\ z <= StackMost
  BY DEF IsStack
<1>5. Keeps(Nat, stack, S, p)
  BY <1>2, <1>4, OnlyKeeps
<1>6. PICK g : p \in Seq(Nat) /\ Len(p) <= z /\ From(p, stack, S, g)
  BY <1>4, <1>5 DEF Keeps
<1>7. PICK m \in Nat : m = Len(p) /\ DOMAIN p = 1..m
  BY <1>6
<1>8. ASSUME NEW k \in 1..m PROVE g[k] \in 1..z /\ g[k] >= k /\ p[k] = stack[g[k]] /\ p[k] \in S
  BY <1>4, <1>6, <1>7 DEF From
<1>9. ASSUME NEW k \in 1..m PROVE p[k] \in 1..raised /\ p[k] <= raised + 1 - k
  <2>1. PICK i \in 1..z : i = g[k] /\ i >= k /\ p[k] = stack[i]
    BY <1>8
  <2>2. stack[i] \in 1..raised /\ stack[i] <= raised + 1 - i
    BY <1>4 DEF IsStack
  <2> QED
    BY ONLY <2>1, <2>2, raised \in Nat, z \in Nat, m \in Nat, k \in 1..m
<1>10. ASSUME NEW k \in 1..m, NEW l \in 1..m, k < l PROVE p[k] > p[l]
  <2>1. g[k] < g[l]
    BY <1>6, <1>7, <1>10 DEF From
  <2>2. stack[g[k]] > stack[g[l]]
    BY <1>4, <1>8, <2>1 DEF IsStack
  <2> QED
    BY <1>8, <2>2
<1>11. IsStack(p, raised)
  <2>1. Len(p) <= StackMost
    <3>1. StackMost \in Nat
      BY DEF BellConstants
    <3> QED
      BY <1>4, <1>6, <1>7, <3>1
  <2> QED
    BY <1>6, <1>7, <1>9, <1>10, <2>1 DEF IsStack
<1>12. ASSUME NEW n, NEW k \in 1..m, p[k] = n PROVE (\E i \in 1..z : stack[i] = n) /\ n # id
  BY <1>1, <1>8, <1>12
<1>13. ASSUME NEW n, NEW i \in 1..z, stack[i] = n, n # id PROVE \E k \in 1..m : p[k] = n
  <2>1. stack[i] \in S
    BY <1>1, <1>4, <1>13 DEF IsStack
  <2>2. PICK k \in 1..m : g[k] = i
    BY <1>4, <1>6, <1>7, <2>1 DEF From
  <2> QED
    BY <1>8, <1>13, <2>2
<1> QED
  BY <1>3, <1>4, <1>7, <1>11, <1>12, <1>13 DEF IsOver

LEMMA BellStart == ASSUME BellConstants, Bell!NInit PROVE BellInv
<1>1. bell \in BellList /\ bell.list = <<>> /\ bell.of = 0 /\ bell.open = FALSE /\ bell.loading = FALSE
  <2>1. <<>> \in Seq(Words) /\ 0 \in Nat
    OBVIOUS
  <2> QED
    BY <2>1 DEF Bell!NInit, BellList
<1>2. opening = 0 /\ replies = {} /\ stack = <<>> /\ timers = <<>> /\ raised = 0 /\ closed = {}
  BY DEF Bell!NInit
<1>3. <<>> \in Seq(Nat) /\ Len(<<>>) = 0 /\ DOMAIN <<>> = {}
  OBVIOUS
<1>4. ListMost \in Nat /\ StackMost \in Nat /\ MaxOpens \in Nat /\ MaxRequests \in Nat
  BY DEF BellConstants
<1>5. Timed
  BY <1>2, <1>3 DEF Timed
<1>6. IsStack(stack, raised)
  BY <1>2, <1>3, <1>4 DEF IsStack
<1>7. \A id \in 1..raised : FALSE
  BY <1>2
<1> QED
  BY <1>1, <1>2, <1>3, <1>4, <1>5, <1>6, <1>7 DEF BellInv, Listed, Raised

\* What the overview is turned into: never nothing, and no more than fits.
LEMMA BuildsSome ==
    ASSUME BellConstants, NEW o, o.services \in Seq(STRING), o.scrapers \in Seq(STRING), NEW s, s = Bell!BuildNotifications(o)
    PROVE  s \in Seq(Words) /\ Len(s) <= ListMost /\ s # <<>>
<1>1. PICK a, b : a = Bell!OfServices(o) /\ b = Bell!OfScrapers(o)
  OBVIOUS
<1>2. a \in Seq(Words) /\ b \in Seq(Words)
  <2>0. o.services \in Seq(Words) /\ o.scrapers \in Seq(Words)
    BY DEF Words
  <2>1. a = Only(o.services, {"degraded", "down"}) /\ b = Only(o.scrapers, {"running", "down"})
    BY <1>1, BellOnly DEF Bell!OfServices, Bell!OfScrapers
  <2>2. Keeps(Words, o.services, {"degraded", "down"}, a)
    BY <2>0, <2>1, OnlyKeeps
  <2>3. Keeps(Words, o.scrapers, {"running", "down"}, b)
    BY <2>0, <2>1, OnlyKeeps
  <2> QED
    BY <2>2, <2>3 DEF Keeps
<1>3. PICK all : all = a \o b
  OBVIOUS
<1>4. PICK n \in Nat : n = Len(all) /\ all \in Seq(Words)
  BY <1>2, <1>3
<1>5. s = IF all = <<>> THEN <<"healthy">> ELSE SubSeq(all, 1, IF n < ListMost THEN n ELSE ListMost)
  BY <1>1, <1>3, <1>4 DEF Bell!BuildNotifications
<1>6. ListMost \in Nat /\ ListMost >= 1
  BY DEF BellConstants
<1>7. CASE all = <<>>
  <2>1. PICK x \in Words : x = "healthy"
    BY DEF Words
  <2>2. s = <<x>>
    BY <1>5, <1>7, <2>1
  <2> QED
    BY <1>6, <2>2
<1>8. CASE all # <<>>
  <2>1. n >= 1
    BY <1>4, <1>8
  <2>2. PICK m \in Nat : m = (IF n < ListMost THEN n ELSE ListMost) /\ m >= 1 /\ m <= n /\ m <= ListMost
    BY <1>6, <2>1
  <2>3. s = SubSeq(all, 1, m)
    BY <1>5, <1>8, <2>2
  <2>4. s \in Seq(Words) /\ Len(s) = m
    BY <1>4, <2>2, <2>3
  <2> QED
    BY <2>2, <2>4
<1> QED
  BY <1>7, <1>8

LEMMA ListedStep ==
    ASSUME BellConstants, \A o \in Overviews : o.services \in Seq(STRING) /\ o.scrapers \in Seq(STRING),
           Listed, Bell!Open \/ Bell!Close \/ Bell!GetOverview \/ UNCHANGED <<bell, opening, replies>>
    PROVE  Listed'
<1>1. PICK open \in BOOLEAN, loading0 \in BOOLEAN, s \in Seq(Words), of \in Nat :
          bell = [open |-> open, loading |-> loading0, list |-> s, of |-> of]
  BY DEF Listed, BellList
<1>2. Len(s) <= ListMost /\ of <= opening /\ opening \in 0..MaxOpens /\ replies \subseteq 1..opening /\ MaxOpens \in Nat
  BY <1>1 DEF Listed, BellConstants
<1>3. CASE Bell!Open
  <2>1. opening' = opening + 1 /\ opening < MaxOpens /\ replies' = replies \cup {opening + 1}
        /\ bell' = [open |-> TRUE, loading |-> TRUE, list |-> s, of |-> of]
    BY <1>1, <1>3 DEF Bell!Open
  <2>2. opening' \in 0..MaxOpens /\ of <= opening' /\ replies' \subseteq 1..opening'
    BY ONLY <1>2, <2>1
  <2> QED
    BY <1>2, <2>1, <2>2 DEF Listed, BellList
<1>4. CASE Bell!Close
  <2>1. opening' = opening /\ replies' = replies /\ bell' = [open |-> FALSE, loading |-> loading0, list |-> s, of |-> of]
    BY <1>1, <1>4 DEF Bell!Close
  <2> QED
    BY <1>2, <2>1 DEF Listed, BellList
<1>5. CASE Bell!GetOverview
  <2>1. PICK k \in replies, t \in {Bell!BuildNotifications(o) : o \in Overviews} \cup {<<"unavailable">>} :
            /\ replies' = replies \ {k} /\ opening' = opening
            /\ bell' = IF Bell!IsOfOpening(k) THEN [bell EXCEPT !.loading = FALSE, !.list = t, !.of = k] ELSE bell
    BY <1>5 DEF Bell!GetOverview
  <2>2. t \in Seq(Words) /\ Len(t) <= ListMost /\ t # <<>>
    <3>1. CASE t = <<"unavailable">>
      <4>1. PICK x \in Words : x = "unavailable"
        BY DEF Words
      <4>2. t = <<x>>
        BY <3>1, <4>1
      <4> QED
        BY <4>2 DEF BellConstants
    <3>2. CASE \E o \in Overviews : t = Bell!BuildNotifications(o)
      BY <3>2, BuildsSome
    <3> QED
      BY <2>1, <3>1, <3>2
  <2>3. CASE Bell!IsOfOpening(k)
    <3>1. k = opening /\ opening \in Nat
      BY <1>2, <2>3 DEF Bell!IsOfOpening
    <3>2. bell' = [open |-> open, loading |-> FALSE, list |-> t, of |-> k]
      BY <1>1, <2>1, <2>3
    <3>3. /\ bell'.open = open /\ bell'.loading = FALSE /\ bell'.list = t /\ bell'.of = k
          /\ bell' \in BellList
      BY <2>2, <3>1, <3>2 DEF BellList
    <3> QED
      BY <1>2, <2>1, <2>2, <3>1, <3>3 DEF Listed
  <2>4. CASE ~Bell!IsOfOpening(k)
    BY <2>1, <2>4 DEF Listed
  <2> QED
    BY <2>3, <2>4
<1>6. CASE UNCHANGED <<bell, opening, replies>>
  BY <1>6 DEF Listed
<1> QED
  BY <1>3, <1>4, <1>5, <1>6

LEMMA RaisedStep ==
    ASSUME BellConstants, Raised,
           Bell!Notify \/ Bell!TimeIsUp \/ (\E id \in 1..MaxRequests : Bell!Dismiss(id)) \/ UNCHANGED <<stack, timers, raised, closed>>
    PROVE  Raised'
<1>1. raised \in Nat /\ MaxRequests \in Nat /\ StackMost \in Nat
  BY DEF Raised, BellConstants
<1>2. PICK z \in Nat : z = Len(timers) /\ DOMAIN timers = 1..z /\ timers \in Seq(Nat) /\ z <= raised
                       /\ \A i \in 1..z : timers[i] = raised - z + i
  BY DEF Raised, Timed
<1>3. \A id : TimeRuns(id) <=> id \in raised - z + 1..raised
  <2>1. ASSUME NEW id, TimeRuns(id) PROVE id \in raised - z + 1..raised
    BY <1>1, <1>2, <2>1 DEF TimeRuns
  <2>2. ASSUME NEW id \in raised - z + 1..raised PROVE TimeRuns(id)
    <3>1. PICK i : i = id - raised + z
      OBVIOUS
    <3>2. i \in 1..z /\ raised - z + i = id
      BY ONLY <1>1, <1>2, <3>1, id \in raised - z + 1..raised, z \in Nat
    <3> QED
      BY <1>2, <3>2 DEF TimeRuns
  <2> QED
    BY <2>1, <2>2
<1>4. \A id : IsOver(id) => id \in 1..raised
  BY DEF IsOver, Raised, IsStack
<1>5. CASE Bell!Notify
  <2>1. raised' = raised + 1 /\ raised < MaxRequests /\ timers' = Append(timers, raised + 1) /\ closed' = closed
    BY <1>5 DEF Bell!Notify
  <2>2. IsStack(stack', raised') /\ (\A id : IsOver(id)' => id = raised + 1 \/ IsOver(id))
        /\ \A id : id = raised + 1 \/ (IsOver(id) /\ raised + 1 - id < StackMost) => IsOver(id)'
    BY <1>1, <1>5, <2>1, NotifyPuts DEF Raised
  <2>3. timers' \in Seq(Nat) /\ Len(timers') = z + 1 /\ DOMAIN timers' = 1..z + 1
        /\ \A i \in 1..z + 1 : timers'[i] = raised' - (z + 1) + i
    <3>1. timers' \in Seq(Nat) /\ Len(timers') = z + 1 /\ timers'[z + 1] = raised + 1 /\ \A i \in 1..z : timers'[i] = timers[i]
      BY <1>1, <1>2, <2>1
    <3>2. \A i \in 1..z + 1 : i = z + 1 \/ i \in 1..z
      BY ONLY z \in Nat
    <3>3. ASSUME NEW i \in 1..z + 1 PROVE timers'[i] = raised' - (z + 1) + i
      <4>1. CASE i = z + 1
        BY <1>1, <2>1, <3>1, <4>1
      <4>2. CASE i \in 1..z
        BY <1>1, <1>2, <2>1, <3>1, <4>2
      <4> QED
        BY <3>2, <4>1, <4>2
    <3> QED
      BY <3>1, <3>3
  <2>4. Timed'
    BY <1>1, <1>2, <2>1, <2>3 DEF Timed
  <2>5. \A id : TimeRuns(id)' <=> id = raised + 1 \/ TimeRuns(id)
    <3>1. timers'[z + 1] = raised + 1 /\ z + 1 \in 1..z + 1 /\ \A i \in 1..z : i \in 1..z + 1 /\ timers'[i] = timers[i]
      BY <1>1, <1>2, <2>1
    <3>2. \A i \in 1..z + 1 : i = z + 1 \/ i \in 1..z
      BY ONLY z \in Nat
    <3> QED
      BY <1>2, <2>3, <3>1, <3>2 DEF TimeRuns
  <2>6. ASSUME NEW id \in 1..raised + 1 PROVE id = raised + 1 \/ id \in 1..raised
    BY ONLY <1>1, id \in 1..raised + 1
  <2>7. closed \subseteq 1..raised /\ raised + 1 \notin 1..raised /\ 1..raised \subseteq 1..raised + 1
    BY <1>1 DEF Raised
  <2>8. \A id \in 1..raised' : IsOver(id)' => TimeRuns(id)' /\ id \notin closed'
    BY <1>4, <2>1, <2>2, <2>5, <2>6, <2>7 DEF Raised
  <2>9. \A id \in 1..raised' : TimeRuns(id)' /\ id \notin closed' /\ raised' - id < StackMost => IsOver(id)'
    <3>1. \A id \in 1..raised : raised + 1 - id < StackMost => raised - id < StackMost
      BY <1>1
    <3> QED
      BY <2>1, <2>2, <2>5, <2>6, <3>1 DEF Raised
  <2>10. raised' \in 0..MaxRequests /\ closed' \subseteq 1..raised'
    BY <1>1, <2>1, <2>7
  <2> QED
    BY <2>2, <2>4, <2>8, <2>9, <2>10 DEF Raised
<1>6. CASE Bell!TimeIsUp
  <2>1. PICK id : id = timers[1]
    OBVIOUS
  <2>2. z >= 1 /\ id = raised - z + 1 /\ timers' = Tail(timers) /\ stack' = Bell!Without(id) /\ raised' = raised /\ closed' = closed
    <3>1. timers # <<>> /\ timers' = Tail(timers) /\ stack' = Bell!Without(Head(timers)) /\ raised' = raised /\ closed' = closed
      BY <1>6 DEF Bell!TimeIsUp
    <3>2. z >= 1 /\ Head(timers) = timers[1]
      BY <1>2, <3>1
    <3>3. 1 \in 1..z
      BY ONLY <3>2, z \in Nat
    <3> QED
      BY <1>2, <2>1, <3>1, <3>2, <3>3
  <2>3. IsStack(stack', raised) /\ \A n : IsOver(n)' <=> IsOver(n) /\ n # id
    BY <1>1, <2>2, WithoutKeeps DEF Raised
  <2>4. PICK y \in Nat : y = z - 1
    BY ONLY <2>2, z \in Nat
  <2>5. timers' \in Seq(Nat) /\ Len(timers') = y /\ DOMAIN timers' = 1..y /\ \A i \in 1..y : timers'[i] = timers[i + 1]
    BY <1>2, <2>2, <2>4
  <2>6. \A i \in 1..y : i + 1 \in 1..z /\ timers'[i] = raised - y + i
    <3>1. \A i \in 1..y : i + 1 \in 1..z /\ raised - z + (i + 1) = raised - y + i
      BY ONLY <1>1, <2>4, z \in Nat, y \in Nat
    <3> QED
      BY <1>2, <2>5, <3>1
  <2>7. Timed'
    <3>1. y <= raised
      BY ONLY <1>1, <1>2, <2>4, z \in Nat
    <3>2. \A i \in 1..y : timers'[i] = raised - y + i
      BY <2>6
    <3> QED
      BY ONLY <2>2, <2>5, <3>1, <3>2, y \in Nat DEF Timed
  <2>8. \A n : TimeRuns(n)' <=> TimeRuns(n) /\ n # id
    <3>1. ASSUME NEW n, TimeRuns(n)' PROVE n \in raised - y + 1..raised
      BY <1>1, <2>2, <2>5, <2>6, <3>1 DEF TimeRuns
    <3>2. ASSUME NEW n \in raised - y + 1..raised PROVE TimeRuns(n)'
      <4>1. PICK i : i = n - raised + y
        OBVIOUS
      <4>2. i \in 1..y /\ raised - y + i = n
        BY ONLY <1>1, <2>4, <4>1, n \in raised - y + 1..raised, y \in Nat
      <4> QED
        BY <2>5, <2>6, <4>2 DEF TimeRuns
    <3>3. \A n : n \in raised - y + 1..raised <=> n \in raised - z + 1..raised /\ n # id
      BY ONLY <1>1, <2>2, <2>4, z \in Nat, y \in Nat
    <3> QED
      BY ONLY <1>3, <3>1, <3>2, <3>3
  <2> QED
    BY <2>2, <2>3, <2>7, <2>8 DEF Raised
<1>7. ASSUME NEW id \in 1..MaxRequests, Bell!Dismiss(id) PROVE Raised'
  <2>1. IsOver(id) /\ stack' = Bell!Without(id) /\ closed' = closed \cup {id} /\ timers' = timers /\ raised' = raised
    BY <1>7 DEF Bell!Dismiss, Bell!Entries, IsOver
  <2>2. IsStack(stack', raised) /\ \A n : IsOver(n)' <=> IsOver(n) /\ n # id
    BY <1>1, <2>1, WithoutKeeps DEF Raised
  <2>3. \A n : TimeRuns(n)' <=> TimeRuns(n)
    BY <2>1 DEF TimeRuns
  <2>4. Timed'
    BY <2>1 DEF Raised, Timed
  <2>5. closed' \subseteq 1..raised
    BY <1>4, <2>1 DEF Raised
  <2> QED
    BY <2>1, <2>2, <2>3, <2>4, <2>5 DEF Raised
<1>8. CASE UNCHANGED <<stack, timers, raised, closed>>
  BY <1>8 DEF Raised, Timed, TimeRuns, IsOver
<1> QED
  BY <1>5, <1>6, <1>7, <1>8

LEMMA BellStep ==
    ASSUME BellConstants, \A o \in Overviews : o.services \in Seq(STRING) /\ o.scrapers \in Seq(STRING),
           BellInv, Bell!NNext \/ UNCHANGED notices
    PROVE  BellInv'
<1>1. Listed /\ Raised
  BY DEF BellInv
<1>2. Bell!Open \/ Bell!Close \/ Bell!GetOverview \/ UNCHANGED <<bell, opening, replies>>
  BY DEF Bell!NNext, Bell!Notify, Bell!TimeIsUp, Bell!Dismiss, notices
<1>3. Bell!Notify \/ Bell!TimeIsUp \/ (\E id \in 1..MaxRequests : Bell!Dismiss(id)) \/ UNCHANGED <<stack, timers, raised, closed>>
  BY Zenon DEF Bell!NNext, Bell!Open, Bell!Close, Bell!GetOverview, notices
<1>4. Listed' /\ Raised'
  BY <1>1, <1>2, <1>3, ListedStep, RaisedStep
<1> QED
  BY <1>4 DEF BellInv

-----------------------------------------------------------------------------
(* AdminPanel *)

PanelConstants == None \notin Users \cup Panel!Flight

Resource == [data : Panel!Reading \cup {None}, loading : BOOLEAN, refreshing : BOOLEAN, stale : BOOLEAN,
             forbidden : BOOLEAN, gen : Nat, pending : Panel!Flight \cup {None}, listeners : SUBSET Watching]

\* What a resource waits for was sent since it is watched, and nobody watches that of
\* another session.
Sound(u, s, who) ==
    /\ s.pending # None => s.pending.user = u /\ s.pending.gen = s.gen /\ s.listeners # {}
    /\ s.forbidden => s.data = None /\ (s.pending = None \/ s.pending.settled)
    /\ s.refreshing <=> s.pending # None
    /\ s.data # None /\ ~s.stale => s.data.gen = s.gen
    /\ s.listeners # {} => who = u
\* Of the requests under way only the one that is waited for is not out of date.
Awaited(f, s) == f.gen <= s.gen /\ (f.gen = s.gen => s.pending = f)
Resources ==
    /\ resource \in [Users -> Resource] /\ flights \subseteq Panel!Flight
    /\ \A u \in Users : Sound(u, resource[u], session) /\ (resource[u].pending # None => resource[u].pending \in flights)
    /\ \A f \in flights : Awaited(f, resource[f.user])
Signed ==
    /\ cookie \in Users \cup {None} /\ session \in Users \cup {None} /\ loaded \in BOOLEAN
    /\ auth \in {"none", "me", "signin", "signinMe", "logout"}
    /\ hidden \in BOOLEAN /\ running \in BOOLEAN
Buttons ==
    /\ button \in [Watching -> [pending : {"no", "posting", "refreshing"}, forbidden : BOOLEAN]]
    /\ \A p \in Watching : button[p].pending # "no" => session # None
PanelInv == Resources /\ Signed /\ Buttons

\* A request is sent while none is waited for.
LEMMA SentIsAwaited ==
    ASSUME PanelConstants, Resources, NEW u \in Users, NEW ps \in SUBSET Watching,
           NEW s \in Resource, s = [resource[u] EXCEPT !.listeners = ps], ps # {},
           ~s.forbidden, s.pending = None, session = u, session' = session,
           resource' = [resource EXCEPT ![u] = [s EXCEPT !.pending = Panel!Request(u), !.refreshing = TRUE]],
           flights' = flights \cup {Panel!Request(u)}
    PROVE  Resources'
<1>1. PICK f : f = Panel!Request(u)
  OBVIOUS
<1>2. resource[u] \in Resource /\ s.gen = resource[u].gen /\ s.pending = resource[u].pending /\ s.forbidden = resource[u].forbidden
      /\ s.data = resource[u].data /\ s.stale = resource[u].stale /\ s.listeners = ps
  BY DEF Resources, Resource
<1>3. f \in Panel!Flight /\ f.user = u /\ f.gen = s.gen /\ f.settled = FALSE /\ f # None
  <2>1. f = [user |-> u, gen |-> s.gen, settled |-> FALSE] /\ s.gen \in Nat
    BY <1>1, <1>2 DEF Panel!Request, Resource
  <2>2. f \in Panel!Flight /\ f.user = u /\ f.gen = s.gen /\ f.settled = FALSE
    BY ONLY <2>1, u \in Users DEF Panel!Flight
  <2> QED
    BY <2>2 DEF PanelConstants
<1>4. PICK t : t = [s EXCEPT !.pending = f, !.refreshing = TRUE]
  OBVIOUS
<1>5. t \in Resource /\ t.pending = f /\ t.refreshing = TRUE /\ t.gen = s.gen /\ t.forbidden = FALSE /\ t.data = s.data
      /\ t.stale = s.stale /\ t.listeners = ps
  <2>1. f \in Panel!Flight \cup {None}
    BY <1>3
  <2> QED
    BY ONLY <1>2, <1>4, <2>1, s \in Resource, ~s.forbidden DEF Resource
<1>6. resource' = [resource EXCEPT ![u] = t] /\ flights' = flights \cup {f}
  BY <1>1, <1>4
<1>7. resource \in [Users -> Resource] /\ flights \subseteq Panel!Flight
  BY DEF Resources
<1>8. resource' \in [Users -> Resource] /\ flights' \subseteq Panel!Flight /\ resource'[u] = t
      /\ \A v \in Users : v # u => resource'[v] = resource[v]
  BY <1>3, <1>5, <1>6, <1>7
<1>9. ASSUME NEW v \in Users PROVE Sound(v, resource'[v], session') /\ (resource'[v].pending # None => resource'[v].pending \in flights')
  <2>1. CASE v = u
    <3>1. s.data # None /\ ~s.stale => s.data.gen = s.gen
      BY <1>2 DEF Resources, Sound
    <3>2. Sound(u, t, session)
      BY ONLY <1>3, <1>5, <3>1, ps # {}, session = u DEF Sound
    <3> QED
      BY ONLY <1>5, <1>6, <1>8, <2>1, <3>2, session' = session
  <2>2. CASE v # u
    <3>1. Sound(v, resource[v], session) /\ (resource[v].pending # None => resource[v].pending \in flights)
      BY DEF Resources
    <3> QED
      BY ONLY <1>6, <1>8, <2>2, <3>1, session' = session, v \in Users
  <2> QED
    BY <2>1, <2>2
<1>10. ASSUME NEW g \in flights' PROVE Awaited(g, resource'[g.user])
  <2>1. CASE g = f
    <3>1. s.gen \in Nat
      BY DEF Resource
    <3> QED
      BY ONLY <1>3, <1>5, <1>8, <2>1, <3>1 DEF Awaited
  <2>2. CASE g # f
    <3>1. g \in flights /\ g.user \in Users /\ Awaited(g, resource[g.user])
      BY <1>6, <1>7, <2>2 DEF Resources, Panel!Flight
    <3>2. CASE g.user = u
      <4>1. g.gen <= s.gen /\ g.gen # s.gen
        BY <1>2, <1>7, <3>1, <3>2 DEF Awaited, Panel!Flight, PanelConstants
      <4> QED
        BY <1>5, <1>8, <3>2, <4>1 DEF Awaited
    <3>3. CASE g.user # u
      BY <1>8, <3>1, <3>3
    <3> QED
      BY <3>2, <3>3
  <2> QED
    BY <2>1, <2>2
<1> QED
  BY <1>8, <1>9, <1>10 DEF Resources

\* Whoever leaves takes what is waited for with them, if they are the last.
LEMMA DroppedIsSound ==
    ASSUME PanelConstants, Resources, NEW u \in Users, NEW ps \in SUBSET Watching,
           NEW who, session = u => who = u \/ ps = Watching,
           \A v \in Users : resource[v].listeners # {} => v = u,
           session' = who, resource' = [resource EXCEPT ![u] = Panel!Dropped(@, ps)], flights' = flights
    PROVE  Resources'
<1>1. PICK s : s = resource[u]
  OBVIOUS
<1>2. s \in Resource /\ Sound(u, s, session) /\ (s.pending # None => s.pending \in flights)
  BY <1>1 DEF Resources
<1>3. PICK t : t = Panel!Dropped(s, ps)
  OBVIOUS
<1>4. t \in Resource /\ t.forbidden = s.forbidden /\ t.data = s.data /\ t.listeners = s.listeners \ ps
      /\ \/ t.gen = s.gen /\ t.pending = s.pending /\ t.refreshing = s.refreshing /\ t.stale = s.stale
            /\ (t.listeners # {} \/ s.listeners = {})
         \/ t.gen = s.gen + 1 /\ t.pending = None /\ t.refreshing = FALSE /\ (t.data # None => t.stale)
  <2>1. CASE s.listeners \subseteq ps /\ s.listeners # {}
    <3>1. t = [s EXCEPT !.listeners = {}, !.gen = s.gen + 1, !.pending = None, !.refreshing = FALSE,
                        !.stale = (s.data # None \/ s.stale)]
      BY <1>3, <2>1 DEF Panel!Dropped
    <3>2. PICK b \in BOOLEAN : b = (s.data # None \/ s.stale)
      BY Zenon
    <3>3. PICK n \in Nat : n = s.gen + 1
      BY <1>2 DEF Resource
    <3>4. t = [s EXCEPT !.listeners = {}, !.gen = n, !.pending = None, !.refreshing = FALSE, !.stale = b]
      BY <3>1, <3>2, <3>3
    <3>6. t \in Resource /\ t.forbidden = s.forbidden /\ t.data = s.data /\ t.listeners = {} /\ t.gen = n
          /\ t.pending = None /\ t.refreshing = FALSE /\ t.stale = b
      BY ONLY <1>2, <3>4, b \in BOOLEAN, n \in Nat DEF Resource
    <3>5. s.data # None => b
      BY ONLY Zenon, <3>2
    <3> QED
      BY <2>1, <3>3, <3>5, <3>6
  <2>2. CASE ~(s.listeners \subseteq ps /\ s.listeners # {})
    <3>1. t = [s EXCEPT !.listeners = s.listeners \ ps]
      BY <1>3, <2>2 DEF Panel!Dropped
    <3>2. t \in Resource /\ t.forbidden = s.forbidden /\ t.data = s.data /\ t.listeners = s.listeners \ ps /\ t.gen = s.gen
          /\ t.pending = s.pending /\ t.refreshing = s.refreshing /\ t.stale = s.stale
      BY ONLY <1>2, <3>1 DEF Resource
    <3> QED
      BY <2>2, <3>2
  <2> QED
    BY <2>1, <2>2
<1>5. Sound(u, t, who)
  <2>1. t.listeners # {} => who = u
    BY <1>2, <1>4 DEF Sound, Resource
  <2> QED
    BY <1>2, <1>4, <2>1 DEF Sound
<1>6. resource' = [resource EXCEPT ![u] = t]
  BY <1>1, <1>3
<1>7. resource \in [Users -> Resource] /\ flights \subseteq Panel!Flight
  BY DEF Resources
<1>8. resource' \in [Users -> Resource] /\ resource'[u] = t /\ \A v \in Users : v # u => resource'[v] = resource[v]
  BY <1>4, <1>6, <1>7
<1>9. ASSUME NEW v \in Users PROVE Sound(v, resource'[v], session') /\ (resource'[v].pending # None => resource'[v].pending \in flights')
  <2>1. CASE v = u
    BY <1>2, <1>4, <1>5, <1>8, <2>1
  <2>2. CASE v # u
    BY <1>8, <2>2 DEF Resources, Sound
  <2> QED
    BY <2>1, <2>2
<1>10. ASSUME NEW g \in flights' PROVE Awaited(g, resource'[g.user])
  <2>1. g \in flights /\ g.user \in Users /\ Awaited(g, resource[g.user]) /\ g.gen \in Nat
    BY <1>7 DEF Resources, Panel!Flight
  <2>2. CASE g.user = u
    BY <1>1, <1>2, <1>4, <1>8, <2>1, <2>2 DEF Awaited, Resource
  <2>3. CASE g.user # u
    BY <1>8, <2>1, <2>3
  <2> QED
    BY <2>2, <2>3
<1> QED
  BY <1>7, <1>8, <1>9, <1>10 DEF Resources

LEMMA RefreshIsAwaited ==
    ASSUME PanelConstants, Resources, NEW u \in Users, Panel!CanRefresh(u), session' = session,
           resource' = [resource EXCEPT ![u] = Panel!Refreshed(u)], flights' = flights \cup {Panel!Request(u)}
    PROVE  Resources'
<1>1. PICK s : s = resource[u]
  OBVIOUS
<1>2. s \in Resource /\ s.listeners # {} /\ ~s.forbidden /\ s.pending = None /\ Sound(u, s, session)
  BY <1>1 DEF Panel!CanRefresh, Panel!Shown, Resources
<1>3. PICK ps \in SUBSET Watching : ps = s.listeners
  BY <1>2 DEF Resource
<1>4. s = [s EXCEPT !.listeners = ps]
  BY ONLY <1>2, <1>3 DEF Resource
<1>5. session = u
  BY <1>2 DEF Sound
<1>6. resource' = [resource EXCEPT ![u] = [s EXCEPT !.pending = Panel!Request(u), !.refreshing = TRUE]]
  BY <1>1 DEF Panel!Refreshed
<1>7. s = [resource[u] EXCEPT !.listeners = ps]
  BY <1>1, <1>4
<1> QED
  BY <1>2, <1>3, <1>5, <1>6, <1>7, SentIsAwaited

LEMMA SettleKeeps == ASSUME PanelConstants, PanelInv, NEW f \in flights, Panel!Settle(f) PROVE PanelInv'
<1>1. Resources /\ Signed /\ Buttons /\ f \in Panel!Flight
  BY DEF PanelInv, Resources
<1>2. PICK u \in Users, n \in Nat : f = [user |-> u, gen |-> n, settled |-> FALSE]
  BY <1>1 DEF Panel!Flight, Panel!Settle
<1>3. PICK s : s = resource[u]
  OBVIOUS
<1>4. s \in Resource /\ Sound(u, s, session) /\ Awaited(f, s) /\ f.user = u
  BY <1>1, <1>2, <1>3 DEF Resources
<1>5. PICK g : g = [f EXCEPT !.settled = TRUE]
  OBVIOUS
<1>6. g = [user |-> u, gen |-> n, settled |-> TRUE] /\ g \in Panel!Flight /\ g # None /\ f # None
  <2>1. g = [user |-> u, gen |-> n, settled |-> TRUE]
    BY <1>2, <1>5
  <2>2. g \in Panel!Flight
    BY ONLY <2>1, u \in Users, n \in Nat DEF Panel!Flight
  <2> QED
    BY <1>1, <2>1, <2>2 DEF PanelConstants
<1>7. PICK t \in (IF Panel!Concerns(f) THEN IF cookie = None THEN {Panel!Forbid(s), Panel!Reject(s)} ELSE {Panel!Accept(s, f), Panel!Reject(s)}
                  ELSE {s}) :
        resource' = [resource EXCEPT ![u] = IF s.pending = f THEN [t EXCEPT !.pending = g] ELSE t]
  BY <1>3, <1>4, <1>5 DEF Panel!Settle
<1>8. flights' = (flights \ {f}) \cup {g} /\ session' = session /\ UNCHANGED <<cookie, loaded, auth, hidden, running, button>>
  BY <1>5 DEF Panel!Settle, Panel!panel
<1>9. Signed' /\ Buttons'
  BY <1>1, <1>8 DEF Signed, Buttons
<1>10. resource \in [Users -> Resource] /\ flights \subseteq Panel!Flight
  BY <1>1 DEF Resources
<1>11. PICK z : z = IF s.pending = f THEN [t EXCEPT !.pending = g] ELSE t
  OBVIOUS
<1>12. z \in Resource /\ Sound(u, z, session) /\ z.gen = s.gen /\ (s.pending = f => z.pending = g) /\ (s.pending # f => z.pending = s.pending)
  <2>1. CASE Panel!Concerns(f)
    <3>1. n = s.gen /\ s.listeners # {} /\ s.pending = f
      BY <1>2, <1>3, <1>4, <2>1 DEF Panel!Concerns, Panel!Shown, Awaited
    <3>2. s.forbidden = FALSE
      BY <1>2, <1>4, <1>6, <3>1 DEF Sound, Resource
    <3>3. PICK d \in Panel!Reading : d = [running |-> running, gen |-> n]
      BY <1>1 DEF Signed, Panel!Reading
    <3>4. t \in {Panel!Forbid(s), Panel!Reject(s), Panel!Accept(s, f)}
      BY <1>7, <2>1
    <3>5. s.refreshing = TRUE /\ (s.listeners # {} => session = u) /\ (s.data # None /\ ~s.stale => s.data.gen = s.gen)
      BY <1>4, <1>6, <3>1 DEF Sound, Resource
    <3>6. CASE t = Panel!Forbid(s)
      <4>1. z = [s EXCEPT !.stale = TRUE, !.loading = FALSE, !.forbidden = TRUE, !.data = None, !.pending = g]
        BY <1>11, <3>1, <3>6 DEF Panel!Forbid
      <4>2. z \in Resource /\ z.stale = TRUE /\ z.forbidden = TRUE /\ z.data = None /\ z.pending = g /\ z.gen = s.gen
            /\ z.listeners = s.listeners /\ z.refreshing = s.refreshing
        BY ONLY <1>4, <1>6, <4>1 DEF Resource
      <4>3. Sound(u, z, session)
        BY ONLY <1>6, <3>1, <3>5, <4>2 DEF Sound
      <4> QED
        BY <3>1, <4>2, <4>3
    <3>7. CASE t = Panel!Reject(s)
      <4>1. z = [s EXCEPT !.stale = TRUE, !.loading = FALSE, !.pending = g]
        BY <1>11, <3>1, <3>7 DEF Panel!Reject
      <4>2. z \in Resource /\ z.stale = TRUE /\ z.forbidden = s.forbidden /\ z.data = s.data /\ z.pending = g /\ z.gen = s.gen
            /\ z.listeners = s.listeners /\ z.refreshing = s.refreshing
        BY ONLY <1>4, <1>6, <4>1 DEF Resource
      <4>3. Sound(u, z, session)
        BY ONLY <1>6, <3>1, <3>2, <3>5, <4>2 DEF Sound
      <4> QED
        BY <3>1, <4>2, <4>3
    <3>8. CASE t = Panel!Accept(s, f)
      <4>1. z = [s EXCEPT !.data = d, !.loading = FALSE, !.stale = FALSE, !.pending = g]
        <5>1. f.gen = n
          BY <1>2
        <5>2. t = [s EXCEPT !.data = d, !.loading = FALSE, !.stale = FALSE]
          BY ONLY <3>3, <3>8, <5>1 DEF Panel!Accept
        <5> QED
          BY ONLY <1>11, <3>1, <5>2
      <4>2. z \in Resource /\ z.stale = FALSE /\ z.forbidden = s.forbidden /\ z.data = d /\ z.pending = g /\ z.gen = s.gen
            /\ z.listeners = s.listeners /\ z.refreshing = s.refreshing
        BY ONLY <1>4, <1>6, <4>1, d \in Panel!Reading DEF Resource
      <4>3. Sound(u, z, session)
        BY ONLY <1>6, <3>1, <3>2, <3>3, <3>5, <4>2 DEF Sound
      <4> QED
        BY <3>1, <4>2, <4>3
    <3> QED
      BY <3>4, <3>6, <3>7, <3>8
  <2>2. CASE ~Panel!Concerns(f)
    <3>1. s.pending # f
      BY <1>2, <1>3, <1>4, <1>6, <2>2 DEF Panel!Concerns, Panel!Shown, Sound
    <3>2. z = s
      BY <1>7, <1>11, <2>2, <3>1
    <3> QED
      BY <1>4, <3>1, <3>2
  <2> QED
    BY <2>1, <2>2
<1>13. resource' = [resource EXCEPT ![u] = z]
  BY <1>7, <1>11
<1>14. resource' \in [Users -> Resource] /\ flights' \subseteq Panel!Flight /\ resource'[u] = z
       /\ \A v \in Users : v # u => resource'[v] = resource[v]
  BY <1>6, <1>8, <1>10, <1>12, <1>13
<1>15. ASSUME NEW v \in Users PROVE Sound(v, resource'[v], session') /\ (resource'[v].pending # None => resource'[v].pending \in flights')
  <2>1. CASE v = u
    <3>1. s.pending # None => s.pending \in flights
      BY <1>1, <1>3 DEF Resources
    <3> QED
      BY ONLY <1>8, <1>12, <1>14, <2>1, <3>1
  <2>2. CASE v # u
    <3>1. Sound(v, resource[v], session) /\ (resource[v].pending # None => resource[v].pending \in flights /\ resource[v].pending.user = v)
      BY <1>1 DEF Resources, Sound
    <3> QED
      BY ONLY <1>4, <1>8, <1>14, <2>2, <3>1, v \in Users
  <2> QED
    BY <2>1, <2>2
<1>16. ASSUME NEW h \in flights' PROVE Awaited(h, resource'[h.user])
  <2>1. CASE h = g
    <3>1. h.user = u /\ h.gen = n /\ f.gen = n
      BY <1>2, <1>6, <2>1
    <3> QED
      BY ONLY <1>4, <1>12, <1>14, <2>1, <3>1 DEF Awaited
  <2>2. CASE h # g
    <3>1. h \in flights /\ h # f /\ h.user \in Users /\ Awaited(h, resource[h.user])
      BY <1>1, <1>8, <1>10, <2>2 DEF Resources, Panel!Flight
    <3>2. CASE h.user = u
      BY ONLY <1>3, <1>4, <1>12, <1>14, <3>1, <3>2 DEF Awaited
    <3>3. CASE h.user # u
      BY ONLY <1>14, <3>1, <3>3
    <3> QED
      BY <3>2, <3>3
  <2> QED
    BY <2>1, <2>2
<1> QED
  BY <1>9, <1>14, <1>15, <1>16 DEF PanelInv, Resources

LEMMA FinallyKeeps == ASSUME PanelConstants, PanelInv, NEW f \in flights, Panel!Finally(f) PROVE PanelInv'
<1>1. Resources /\ Signed /\ Buttons /\ f \in Panel!Flight /\ f # None
  BY DEF PanelInv, Resources, PanelConstants
<1>2. PICK u \in Users : u = f.user
  BY <1>1 DEF Panel!Flight
<1>3. PICK s : s = resource[u]
  OBVIOUS
<1>4. s \in Resource /\ Sound(u, s, session) /\ Awaited(f, s)
  BY <1>1, <1>2, <1>3 DEF Resources
<1>5. flights' = flights \ {f} /\ session' = session /\ UNCHANGED <<cookie, loaded, auth, hidden, running, button>>
  BY DEF Panel!Finally, Panel!panel
<1>6. Signed' /\ Buttons'
  BY <1>1, <1>5 DEF Signed, Buttons
<1>7. resource \in [Users -> Resource] /\ flights \subseteq Panel!Flight
  BY <1>1 DEF Resources
<1>8. PICK z : z = IF s.pending = f THEN [s EXCEPT !.pending = None, !.refreshing = FALSE] ELSE s
  OBVIOUS
<1>9. resource' = [resource EXCEPT ![u] = z]
  <2>1. CASE s.pending = f
    <3>1. Panel!Concerns(f)
      BY <1>1, <1>2, <1>3, <1>4, <2>1 DEF Panel!Concerns, Panel!Shown, Sound
    <3>2. resource' = [resource EXCEPT ![u].pending = None, ![u].refreshing = FALSE]
      BY <1>2, <1>3, <2>1, <3>1 DEF Panel!Finally
    <3>3. resource' = [resource EXCEPT ![u] = [s EXCEPT !.pending = None, !.refreshing = FALSE]]
      BY ONLY <1>3, <1>7, <3>2, u \in Users
    <3> QED
      BY <1>8, <2>1, <3>3
  <2>2. CASE s.pending # f
    <3>1. resource' = resource
      BY <1>2, <1>3, <2>2 DEF Panel!Finally
    <3> QED
      BY ONLY <1>3, <1>7, <1>8, <2>2, <3>1
  <2> QED
    BY <2>1, <2>2
<1>10. z \in Resource /\ Sound(u, z, session) /\ z.gen = s.gen /\ (s.pending = f => z.pending = None) /\ (s.pending # f => z = s)
  <2>1. CASE s.pending = f
    <3>1. z = [s EXCEPT !.pending = None, !.refreshing = FALSE]
      BY <1>8, <2>1
    <3>2. z \in Resource /\ z.forbidden = s.forbidden /\ z.data = s.data /\ z.stale = s.stale /\ z.gen = s.gen /\ z.pending = None
          /\ z.refreshing = FALSE /\ z.listeners = s.listeners
      BY ONLY <1>4, <3>1 DEF Resource
    <3>3. Sound(u, z, session)
      BY ONLY <1>4, <3>2 DEF Sound
    <3> QED
      BY <2>1, <3>2, <3>3
  <2>2. CASE s.pending # f
    BY <1>4, <1>8, <2>2
  <2> QED
    BY <2>1, <2>2
<1>11. resource' \in [Users -> Resource] /\ flights' \subseteq Panel!Flight /\ resource'[u] = z
       /\ \A v \in Users : v # u => resource'[v] = resource[v]
  BY <1>5, <1>7, <1>9, <1>10
<1>12. ASSUME NEW v \in Users PROVE Sound(v, resource'[v], session') /\ (resource'[v].pending # None => resource'[v].pending \in flights')
  <2>1. Sound(v, resource[v], session) /\ (resource[v].pending # None => resource[v].pending \in flights /\ resource[v].pending.user = v)
    BY <1>1 DEF Resources, Sound
  <2>2. CASE v = u
    BY ONLY <1>3, <1>5, <1>10, <1>11, <2>1, <2>2
  <2>3. CASE v # u
    BY ONLY <1>2, <1>5, <1>11, <2>1, <2>3, v \in Users
  <2> QED
    BY <2>2, <2>3
<1>13. ASSUME NEW h \in flights' PROVE Awaited(h, resource'[h.user])
  <2>1. h \in flights /\ h # f /\ h.user \in Users /\ Awaited(h, resource[h.user])
    BY <1>1, <1>5, <1>7 DEF Resources, Panel!Flight
  <2>2. CASE h.user = u
    BY ONLY <1>3, <1>4, <1>10, <1>11, <2>1, <2>2 DEF Awaited
  <2>3. CASE h.user # u
    BY ONLY <1>11, <2>1, <2>3
  <2> QED
    BY <2>2, <2>3
<1> QED
  BY <1>6, <1>11, <1>12, <1>13 DEF PanelInv, Resources

\* A page that appears beside others asks for nothing.
LEMMA MountKeeps == ASSUME PanelConstants, PanelInv, NEW p \in Watching, Panel!Mount(p) PROVE PanelInv'
<1>1. Resources /\ Signed /\ Buttons
  BY DEF PanelInv
<1>2. PICK u \in Users : u = session
  BY <1>1 DEF Signed, Panel!Mount
<1>3. PICK r \in Resource : r = resource[u]
  BY <1>1 DEF Resources
<1>4. PICK ps \in SUBSET Watching : ps = r.listeners \cup {p} /\ ps # {}
  <2>1. r.listeners \subseteq Watching
    BY <1>3 DEF Resource
  <2>2. r.listeners \cup {p} \in SUBSET Watching /\ r.listeners \cup {p} # {}
    BY <2>1
  <2> QED
    BY <2>2
<1>5. PICK s : s = [r EXCEPT !.listeners = ps]
  OBVIOUS
<1>6. s \in Resource /\ s.listeners = ps /\ s.gen = r.gen /\ s.pending = r.pending /\ s.data = r.data /\ s.stale = r.stale
      /\ s.forbidden = r.forbidden /\ s.refreshing = r.refreshing
  BY ONLY <1>3, <1>4, <1>5, r \in Resource, ps \in SUBSET Watching DEF Resource
<1>7. UNCHANGED <<cookie, session, loaded, auth, hidden, running>> /\ button' = [button EXCEPT ![p] = Panel!Idle]
  BY DEF Panel!Mount, Panel!panel
<1>8. Signed'
  BY <1>1, <1>7 DEF Signed
<1>9. Buttons'
  BY <1>1, <1>7 DEF Buttons, Panel!Idle
<1>10. Sound(u, r, session) /\ (r.pending # None => r.pending \in flights)
  BY <1>1, <1>3 DEF Resources
<1>11. CASE Panel!Shown(u) = {} /\ ~s.forbidden /\ ~hidden
  <2>1. resource' = [resource EXCEPT ![u] = [s EXCEPT !.pending = Panel!Request(u), !.refreshing = TRUE]]
        /\ flights' = flights \cup {Panel!Request(u)}
    BY <1>2, <1>3, <1>4, <1>5, <1>11 DEF Panel!Mount
  <2>2. s.pending = None
    BY <1>3, <1>6, <1>10, <1>11 DEF Sound, Panel!Shown
  <2>3. s = [resource[u] EXCEPT !.listeners = ps]
    BY <1>3, <1>5
  <2>4. Resources'
    BY <1>1, <1>2, <1>4, <1>6, <1>7, <1>11, <2>1, <2>2, <2>3, SentIsAwaited
  <2> QED
    BY <1>8, <1>9, <2>4 DEF PanelInv
<1>12. CASE ~(Panel!Shown(u) = {} /\ ~s.forbidden /\ ~hidden)
  <2>1. resource' = [resource EXCEPT ![u] = s] /\ flights' = flights
    BY <1>2, <1>3, <1>4, <1>5, <1>12 DEF Panel!Mount
  <2>2. Sound(u, s, session)
    BY ONLY <1>2, <1>4, <1>6, <1>10 DEF Sound
  <2>3. resource \in [Users -> Resource] /\ flights \subseteq Panel!Flight
    BY <1>1 DEF Resources
  <2>4. resource' \in [Users -> Resource] /\ resource'[u] = s /\ \A v \in Users : v # u => resource'[v] = resource[v]
    BY <1>6, <2>1, <2>3
  <2>5. ASSUME NEW v \in Users PROVE Sound(v, resource'[v], session') /\ (resource'[v].pending # None => resource'[v].pending \in flights')
    <3>1. Sound(v, resource[v], session) /\ (resource[v].pending # None => resource[v].pending \in flights)
      BY <1>1 DEF Resources
    <3> QED
      BY ONLY <1>3, <1>6, <1>7, <1>10, <2>1, <2>2, <2>4, <3>1, v \in Users
  <2>6. ASSUME NEW h \in flights' PROVE Awaited(h, resource'[h.user])
    <3>1. h \in flights /\ h.user \in Users /\ Awaited(h, resource[h.user])
      BY <1>1, <2>1, <2>3 DEF Resources, Panel!Flight
    <3> QED
      BY ONLY <1>3, <1>6, <2>4, <3>1 DEF Awaited
  <2> QED
    BY <1>8, <1>9, <2>1, <2>3, <2>4, <2>5, <2>6 DEF PanelInv, Resources
<1> QED
  BY <1>11, <1>12

LEMMA UnmountKeeps == ASSUME PanelConstants, PanelInv, NEW p \in Watching, Panel!Unmount(p) PROVE PanelInv'
<1>1. Resources /\ Signed /\ Buttons
  BY DEF PanelInv
<1>2. PICK u \in Users : u = session
  BY <1>1 DEF Signed, Panel!Unmount, Panel!Mounted
<1>3. PICK ps \in SUBSET Watching : ps = {p}
  OBVIOUS
<1>4. UNCHANGED <<cookie, session, loaded, auth, hidden, running>> /\ flights' = flights
      /\ button' = [button EXCEPT ![p] = Panel!Idle] /\ resource' = [resource EXCEPT ![u] = Panel!Dropped(@, ps)]
  BY <1>2, <1>3 DEF Panel!Unmount, Panel!panel
<1>5. Signed' /\ Buttons'
  BY <1>1, <1>4 DEF Signed, Buttons, Panel!Idle
<1>6. \A v \in Users : resource[v].listeners # {} => v = u
  BY <1>1, <1>2 DEF Resources, Sound
<1>7. Resources'
  BY <1>1, <1>2, <1>3, <1>4, <1>6, DroppedIsSound
<1> QED
  BY <1>5, <1>7 DEF PanelInv

\* The session changes: all pages of the one that ends are gone with it.
LEMMA EmitKeeps ==
    ASSUME PanelConstants, PanelInv, NEW u \in Users \cup {None}, Panel!Emit(u)
    PROVE  Resources' /\ Buttons' /\ session' = u /\ loaded' \in BOOLEAN /\ UNCHANGED <<hidden, running>>
<1>1. Resources /\ Signed /\ Buttons
  BY DEF PanelInv
<1>2. session' = u /\ loaded' = TRUE /\ UNCHANGED <<hidden, flights, running>>
  BY DEF Panel!Emit
<1>3. Buttons'
  <2>1. CASE session = u
    BY <1>1, <1>2, <2>1 DEF Buttons, Panel!Emit
  <2>2. CASE session # u
    <3>1. button' = [p \in Watching |-> Panel!Idle]
      BY <2>2 DEF Panel!Emit
    <3> QED
      BY <3>1 DEF Buttons, Panel!Idle
  <2> QED
    BY <2>1, <2>2
<1>4. Resources'
  <2>1. CASE session \in Users \ {u}
    <3>1. PICK w \in Users : w = session
      BY <2>1
    <3>2. PICK ps \in SUBSET Watching : ps = Watching
      OBVIOUS
    <3>3. resource' = [resource EXCEPT ![w] = Panel!Dropped(@, ps)]
      BY <2>1, <3>1, <3>2 DEF Panel!Emit
    <3>4. \A v \in Users : resource[v].listeners # {} => v = w
      BY <1>1, <3>1 DEF Resources, Sound
    <3> QED
      BY <1>1, <1>2, <3>1, <3>2, <3>3, <3>4, DroppedIsSound
  <2>2. CASE session \notin Users \ {u}
    <3>1. resource' = resource
      BY <2>2 DEF Panel!Emit
    <3>2. \A v \in Users : resource[v].listeners # {} => v = u
      BY <1>1, <2>2 DEF Resources, Sound
    <3>3. \A v \in Users : Sound(v, resource[v], session')
      BY <1>1, <1>2, <3>2 DEF Resources, Sound
    <3> QED
      BY <1>1, <1>2, <3>1, <3>3 DEF Resources
  <2> QED
    BY <2>1, <2>2
<1> QED
  BY <1>2, <1>3, <1>4

LEMMA TriggerKeeps == ASSUME PanelConstants, PanelInv, NEW p \in Watching, Panel!TriggerAnswered(p) PROVE PanelInv'
<1>1. Resources /\ Signed /\ Buttons
  BY DEF PanelInv
<1>2. PICK u \in Users : u = session
  <2>1. button[p].pending # "no"
    BY DEF Panel!TriggerAnswered
  <2> QED
    BY <1>1, <2>1 DEF Signed, Buttons
<1>3. UNCHANGED <<cookie, session, loaded, auth, hidden>> /\ running' \in BOOLEAN
  BY <1>1 DEF Panel!TriggerAnswered, Panel!panel, Signed
<1>4. Signed'
  BY <1>1, <1>3 DEF Signed
<1>5. Buttons'
  <2>1. session' # None
    BY <1>2, <1>3 DEF PanelConstants
  <2>2. PICK x \in [pending : {"no", "posting", "refreshing"}, forbidden : BOOLEAN] : button' = [button EXCEPT ![p] = x]
    <3>1. button[p] \in [pending : {"no", "posting", "refreshing"}, forbidden : BOOLEAN]
      BY <1>1 DEF Buttons
    <3>2. button' \in {[button EXCEPT ![p].pending = "refreshing"], [button EXCEPT ![p] = [pending |-> "no", forbidden |-> TRUE]],
                       [button EXCEPT ![p].pending = "no"]}
      BY DEF Panel!TriggerAnswered
    <3> QED
      BY <3>1, <3>2
  <2> QED
    BY <1>1, <2>1, <2>2 DEF Buttons
<1>6. Resources'
  <2>1. CASE UNCHANGED <<resource, flights>>
    BY <1>1, <1>3, <2>1 DEF Resources
  <2>2. CASE Panel!CanRefresh(u) /\ resource' = [resource EXCEPT ![u] = Panel!Refreshed(u)]
             /\ flights' = flights \cup {Panel!Request(u)}
    BY <1>1, <1>3, <2>2, RefreshIsAwaited
  <2> QED
    BY <1>2, <2>1, <2>2 DEF Panel!TriggerAnswered
<1> QED
  BY <1>4, <1>5, <1>6 DEF PanelInv

LEMMA SessionKeeps ==
    ASSUME PanelConstants, PanelInv,
           Panel!LoadSession \/ Panel!SessionLoaded \/ Panel!Login \/ Panel!LoginAnswered \/ Panel!LoginCompleted
             \/ Panel!Logout \/ Panel!LogoutAnswered \/ Panel!CookieLost
    PROVE  PanelInv'
<1>1. Resources /\ Signed /\ Buttons
  BY DEF PanelInv
<1>2. cookie' \in Users \cup {None} /\ auth' \in {"none", "me", "signin", "signinMe", "logout"}
  BY <1>1 DEF Signed, Panel!LoadSession, Panel!SessionLoaded, Panel!Login, Panel!LoginAnswered, Panel!LoginCompleted,
     Panel!Logout, Panel!LogoutAnswered, Panel!CookieLost, Panel!Ask
<1>3. CASE UNCHANGED <<session, loaded, hidden, resource, flights, running, button>>
  <2>1. Resources' /\ Buttons'
    BY <1>1, <1>3 DEF Resources, Buttons
  <2>2. Signed'
    BY <1>1, <1>2, <1>3 DEF Signed
  <2> QED
    BY <2>1, <2>2 DEF PanelInv
<1>4. CASE \E u \in Users \cup {None} : Panel!Emit(u)
  <2>1. PICK u \in Users \cup {None} : Panel!Emit(u)
    BY <1>4
  <2>2. Resources' /\ Buttons' /\ session' = u /\ loaded' \in BOOLEAN /\ UNCHANGED <<hidden, running>>
    BY <2>1, EmitKeeps
  <2>3. Signed'
    BY <1>1, <1>2, <2>2 DEF Signed
  <2> QED
    BY <2>2, <2>3 DEF PanelInv
<1>5. UNCHANGED <<session, loaded, hidden, resource, flights, running, button>> \/ \E u \in Users \cup {None} : Panel!Emit(u)
  <2>1. cookie \in Users \cup {None}
    BY <1>1 DEF Signed
  <2> QED
    BY Zenon, <2>1 DEF Panel!LoadSession, Panel!SessionLoaded, Panel!Login, Panel!LoginAnswered, Panel!LoginCompleted,
       Panel!Logout, Panel!LogoutAnswered, Panel!CookieLost, Panel!Ask
<1> QED
  BY <1>3, <1>4, <1>5

LEMMA PanelStep == ASSUME PanelConstants, PanelInv, Panel!Next \/ UNCHANGED panel PROVE PanelInv'
<1>1. Resources /\ Signed /\ Buttons
  BY DEF PanelInv
<1>2. ASSUME NEW u \in Users, Panel!Refresh(u) PROVE PanelInv'
  <2>1. Panel!CanRefresh(u) /\ resource' = [resource EXCEPT ![u] = Panel!Refreshed(u)]
        /\ flights' = flights \cup {Panel!Request(u)} /\ UNCHANGED <<cookie, session, loaded, auth, hidden, running, button>>
    BY <1>2 DEF Panel!Refresh, Panel!panel
  <2>2. Resources'
    BY <1>1, <2>1, RefreshIsAwaited
  <2>3. Signed' /\ Buttons'
    BY <1>1, <2>1 DEF Signed, Buttons
  <2> QED
    BY <2>2, <2>3 DEF PanelInv
<1>3. ASSUME NEW p \in Watching, Panel!Trigger(p) \/ Panel!TriggerDone(p) PROVE PanelInv'
  <2>1. UNCHANGED <<cookie, session, loaded, auth, hidden, resource, flights, running>>
    BY <1>3 DEF Panel!Trigger, Panel!TriggerDone, Panel!panel
  <2>2. Resources' /\ Signed'
    BY <1>1, <2>1 DEF Resources, Signed
  <2>3. (button' = [button EXCEPT ![p].pending = "posting"] /\ session # None)
        \/ button' = [button EXCEPT ![p].pending = "no"]
    BY <1>3 DEF Panel!Trigger, Panel!TriggerDone, Panel!MayStart, Panel!Mounted
  <2>4. Buttons'
    BY <1>1, <2>1, <2>3 DEF Buttons
  <2> QED
    BY <2>2, <2>4 DEF PanelInv
<1>4. CASE Panel!ToggleVisible \/ Panel!RunEnds \/ UNCHANGED panel
  <2>1. UNCHANGED <<cookie, session, loaded, auth, resource, flights, button>> /\ hidden' \in BOOLEAN /\ running' \in BOOLEAN
    BY <1>1, <1>4 DEF Panel!ToggleVisible, Panel!RunEnds, Panel!panel, panel, Signed
  <2>2. Resources' /\ Signed' /\ Buttons'
    BY <1>1, <2>1 DEF Resources, Signed, Buttons
  <2> QED
    BY <2>2 DEF PanelInv
<1>5. CASE Panel!LoadSession \/ Panel!SessionLoaded \/ Panel!Login \/ Panel!LoginAnswered \/ Panel!LoginCompleted
             \/ Panel!Logout \/ Panel!LogoutAnswered \/ Panel!CookieLost
  BY <1>5, SessionKeeps
<1> QED
  BY <1>2, <1>3, <1>4, <1>5, SettleKeeps, FinallyKeeps, MountKeeps, UnmountKeeps, TriggerKeeps DEF Panel!Next

LEMMA PanelStart == ASSUME PanelConstants, Panel!Init PROVE PanelInv
<1>1. Signed
  BY DEF Panel!Init, Signed
<1>2. Buttons
  BY DEF Panel!Init, Panel!Idle, Buttons
<1>3. Panel!Fresh \in Resource /\ Panel!Fresh.pending = None /\ Panel!Fresh.refreshing = FALSE /\ Panel!Fresh.forbidden = FALSE
      /\ Panel!Fresh.data = None /\ Panel!Fresh.listeners = {}
  BY DEF Panel!Fresh, Resource
<1>4. \A u \in Users : resource[u] = Panel!Fresh
  BY DEF Panel!Init
<1>5. \A u \in Users : Sound(u, Panel!Fresh, session)
  BY <1>3 DEF Sound
<1>6. flights = {} /\ resource \in [Users -> Resource]
  BY <1>3 DEF Panel!Init
<1>7. Resources
  BY <1>3, <1>4, <1>5, <1>6 DEF Resources
<1> QED
  BY <1>1, <1>2, <1>7 DEF PanelInv

LEMMA PanelIsHonest == ASSUME PanelConstants, PanelInv PROVE Panel!TypeOK /\ Panel!ReadingIsHonest
<1>1. Resources /\ Signed /\ Buttons
  BY DEF PanelInv
<1>2. Panel!TypeOK
  <2>1. ASSUME NEW u \in Users
        PROVE  /\ resource[u].data \in Panel!Reading \cup {None} /\ resource[u].pending \in Panel!Flight \cup {None}
               /\ resource[u].listeners \subseteq Watching /\ resource[u].gen \in Nat
    BY <1>1 DEF Resources, Resource
  <2> QED
    BY <1>1, <2>1 DEF Resources, Signed, Buttons, Panel!TypeOK
<1>3. ASSUME NEW u \in Users
      PROVE  /\ resource[u].listeners # {} /\ resource[u].data # None /\ ~resource[u].stale => resource[u].data.gen = resource[u].gen
             /\ resource[u].forbidden => resource[u].data = None
             /\ resource[u].refreshing = (resource[u].pending # None)
             /\ resource[u].pending # None => resource[u].pending \in flights
             /\ resource[u].listeners # {} => session = u
  <2>1. PICK s : s = resource[u]
    OBVIOUS
  <2>2. s \in Resource /\ Sound(u, s, session) /\ (s.pending # None => s.pending \in flights)
    BY <1>1, <2>1 DEF Resources
  <2>3. s.refreshing = (s.pending # None)
    <3>1. s.refreshing \in BOOLEAN /\ (s.refreshing <=> s.pending # None)
      BY <2>2 DEF Sound, Resource
    <3> QED
      BY ONLY Zenon, <3>1
  <2> QED
    BY <2>1, <2>2, <2>3 DEF Sound
<1>4. Panel!ReadingIsHonest
  BY <1>3 DEF Panel!ReadingIsHonest, Panel!Shown
<1> QED
  BY <1>2, <1>4

-----------------------------------------------------------------------------
(* SignInPages *)

SignInConstants == None \notin Users /\ MaxAttempts \in Nat

Tab == [path : SignIn!Paths, booted : BOOLEAN, user : Users \cup {None}, loading : BOOLEAN, busy : BOOLEAN,
        error : BOOLEAN, wrong : SUBSET Fields, marked : SUBSET Fields]
Cookie == [user : Users \cup {None}, state : Nat, link : BOOLEAN]
Sent == {c \in [kind : SignIn!Kinds, jar : Cookie, link : BOOLEAN] : c.link => c.kind = "url"}
Urls(cs) == {c \in cs : c.kind = "url"}

\* A cookie that names an attempt has its intent.
Means(j) == j \in Cookie /\ j.state \in 0..Len(attempts) /\ (j.state # 0 => j.link = attempts[j.state].link)
Jars ==
    /\ attempts \in Seq([link : BOOLEAN, user : Users \cup {None}]) /\ Means(jar)
    /\ onway \subseteq Sent /\ IsFiniteSet(onway) /\ \A c \in onway : Means(c.jar)
    /\ Len(attempts) + Cardinality(Urls(onway)) <= MaxAttempts

\* The page that waits, in the order in which the answers and the routes come.
ComingHome ==
    /\ jar.user # None /\ \A c \in onway : c.kind \in {"me", "refresh"} /\ c.jar = jar
    /\ \/ ~tab.booted /\ tab.path = "callback" /\ tab.user = (IF tab.loading THEN None ELSE jar.user)
       \/ tab.booted /\ tab.path = "callback" /\ tab.loading /\ onway # {}
       \/ tab.booted /\ tab.path = "home" /\ tab.user = jar.user
Freed == tab \in Tab /\ SignIn!FormIsFreed
SignInInv == Jars /\ Freed /\ steady \in BOOLEAN /\ (steady => ComingHome)

LEMMA UrlsAreMany == ASSUME NEW cs, IsFiniteSet(cs) PROVE Cardinality(Urls(cs)) \in Nat
<1>1. PICK U : U = Urls(cs) /\ U \subseteq cs
  BY DEF Urls
<1> QED
  BY <1>1, FS_Subset, FS_CardinalityType

LEMMA UrlsAreCounted ==
    ASSUME NEW cs, IsFiniteSet(cs), NEW ds, ds \subseteq cs, NEW e
    PROVE  /\ IsFiniteSet(ds) /\ IsFiniteSet(ds \cup {e}) /\ Cardinality(Urls(cs)) \in Nat
           /\ Cardinality(Urls(ds)) \in Nat /\ Cardinality(Urls(ds \cup {e})) \in Nat
           /\ Cardinality(Urls(ds)) <= Cardinality(Urls(cs))
           /\ Cardinality(Urls(ds \cup {e})) <= Cardinality(Urls(cs)) + 1
           /\ e.kind # "url" => Cardinality(Urls(ds \cup {e})) <= Cardinality(Urls(cs))
           /\ e \in cs /\ e.kind = "url" => Cardinality(Urls(cs)) >= 1
<1>1. PICK U : U = Urls(cs)
  OBVIOUS
<1>2. PICK V : V = Urls(ds)
  OBVIOUS
<1>3. U \subseteq cs /\ V \subseteq U
  BY <1>1, <1>2 DEF Urls
<1>4. IsFiniteSet(ds) /\ IsFiniteSet(U) /\ Cardinality(U) \in Nat
  BY <1>3, FS_Subset, FS_CardinalityType
<1>5. IsFiniteSet(V) /\ Cardinality(V) \in Nat /\ Cardinality(V) <= Cardinality(U)
  BY <1>3, <1>4, FS_Subset, FS_CardinalityType
<1>6. IsFiniteSet(ds \cup {e})
  BY <1>4, FS_AddElement
<1>7. PICK W : W = Urls(ds \cup {e})
  OBVIOUS
<1>8. W = (IF e.kind = "url" THEN V \cup {e} ELSE V)
  BY <1>2, <1>7 DEF Urls
<1>9. IsFiniteSet(V \cup {e}) /\ Cardinality(V \cup {e}) = (IF e \in V THEN Cardinality(V) ELSE Cardinality(V) + 1)
  BY <1>5, FS_AddElement
<1>10. e \in cs /\ e.kind = "url" => Cardinality(U) # 0
  <2>1. e \in cs /\ e.kind = "url" => e \in U
    BY <1>1 DEF Urls
  <2> QED
    BY <1>4, <2>1, FS_EmptySet
<1>11. Cardinality(W) \in Nat /\ Cardinality(W) <= Cardinality(U) + 1 /\ (e.kind # "url" => Cardinality(W) <= Cardinality(U))
  BY ONLY <1>4, <1>5, <1>8, <1>9
<1> QED
  BY ONLY <1>1, <1>2, <1>4, <1>5, <1>6, <1>7, <1>10, <1>11

\* No attempt is begun: a cookie the page has, or that comes with an answer, means what it did.
LEMMA JarsMove ==
    ASSUME MaxAttempts \in Nat, Jars, attempts' = attempts, Means(jar'), NEW ds \in SUBSET onway, NEW e \in Sent, e.jar \in {jar, jar'},
           onway' = ds \/ onway' = ds \cup {e},
           e.kind = "url" => Len(attempts) + Cardinality(Urls(onway)) < MaxAttempts
    PROVE  Jars'
<1>1. /\ IsFiniteSet(ds) /\ IsFiniteSet(ds \cup {e}) /\ Cardinality(Urls(onway)) \in Nat
      /\ Cardinality(Urls(ds)) \in Nat /\ Cardinality(Urls(ds \cup {e})) \in Nat
      /\ Cardinality(Urls(ds)) <= Cardinality(Urls(onway))
      /\ Cardinality(Urls(ds \cup {e})) <= Cardinality(Urls(onway)) + 1
      /\ e.kind # "url" => Cardinality(Urls(ds \cup {e})) <= Cardinality(Urls(onway))
  BY UrlsAreCounted DEF Jars
<1>2. Len(attempts) \in Nat /\ Len(attempts) + Cardinality(Urls(onway)) <= MaxAttempts
  BY DEF Jars
<1>3. IsFiniteSet(onway') /\ Len(attempts) + Cardinality(Urls(onway')) <= MaxAttempts
  <2>1. CASE onway' = ds
    BY ONLY <1>1, <1>2, <2>1, MaxAttempts \in Nat
  <2>2. CASE onway' = ds \cup {e}
    BY ONLY <1>1, <1>2, <2>2, MaxAttempts \in Nat, e.kind = "url" => Len(attempts) + Cardinality(Urls(onway)) < MaxAttempts
  <2> QED
    BY <2>1, <2>2
<1>4. Means(jar)' /\ \A c \in onway : Means(c.jar)'
  BY DEF Jars, Means
<1>5. \A c \in onway' : c \in Sent /\ Means(c.jar)'
  <2>1. Means(e.jar)'
    BY <1>4 DEF Jars, Means
  <2> QED
    BY <1>4, <2>1 DEF Jars
<1> QED
  BY <1>3, <1>4, <1>5 DEF Jars, Urls

\* A page that goes elsewhere by itself has a fresh form.
LEMMA SettledIs ==
    ASSUME NEW t \in Tab, NEW z, z = SignIn!Settled(t)
    PROVE  /\ z \in Tab /\ z.booted = t.booted /\ z.user = t.user /\ z.loading = t.loading /\ (z.busy => t.busy)
           /\ z.path = IF ~t.booted \/ t.loading THEN t.path ELSE SignIn!Target(t)
<1>1. PICK p \in SignIn!Paths : p = SignIn!Target(t)
  BY DEF SignIn!Target, SignIn!Paths, SignIn!Public, Tab
<1>2. CASE ~t.booted \/ t.loading \/ SignIn!Target(t) = t.path
  BY <1>2 DEF SignIn!Settled
<1>3. CASE ~(~t.booted \/ t.loading \/ SignIn!Target(t) = t.path)
  <2>1. PICK fs \in SUBSET Fields : fs = Fields \ SignIn!Optional
    OBVIOUS
  <2>2. z = [t EXCEPT !.path = p, !.busy = FALSE, !.error = FALSE, !.wrong = fs, !.marked = {}]
    BY <1>1, <1>3, <2>1 DEF SignIn!Settled, SignIn!Blank
  <2>3. z \in Tab /\ z.booted = t.booted /\ z.user = t.user /\ z.loading = t.loading /\ z.busy = FALSE /\ z.path = p
    BY ONLY <2>2, t \in Tab, p \in SignIn!Paths, fs \in SUBSET Fields DEF Tab
  <2> QED
    BY <1>1, <1>3, <2>3
<1> QED
  BY <1>2, <1>3

LEMMA FreshIs ==
    ASSUME NEW p \in SignIn!Paths, NEW z, z = SignIn!Fresh(p)
    PROVE  z \in Tab /\ z.path = p /\ z.booted = FALSE /\ z.user = None /\ z.loading = TRUE /\ z.busy = FALSE
BY DEF SignIn!Fresh, Tab

LEMMA LoadKeeps ==
    ASSUME SignInConstants, SignInInv, NEW p \in SignIn!Paths, NEW j, Means(j), SignIn!Load(p, j), attempts' = attempts
    PROVE  Jars' /\ Freed' /\ jar' = j /\ tab'.path = p /\ tab'.booted = FALSE /\ tab'.user = None /\ tab'.loading = TRUE
           /\ \A c \in onway' : c.kind = "me" /\ c.jar = j
<1>1. PICK e : e = [kind |-> "me", jar |-> j, link |-> FALSE]
  OBVIOUS
<1>2. jar' = j /\ tab' = SignIn!Fresh(p) /\ onway' = {} \cup {e}
  BY <1>1 DEF SignIn!Load
<1>3. e \in Sent /\ e.kind = "me" /\ e.jar = j
  BY <1>1 DEF Sent, SignIn!Kinds, Means
<1>4. tab' \in Tab /\ tab'.path = p /\ tab'.booted = FALSE /\ tab'.user = None /\ tab'.loading = TRUE /\ tab'.busy = FALSE
  BY <1>2, FreshIs
<1>5. Jars'
  <2>1. {} \in SUBSET onway /\ MaxAttempts \in Nat /\ Jars
    BY DEF SignInConstants, SignInInv
  <2> QED
    BY <1>2, <1>3, <2>1, JarsMove
<1>6. Freed'
  BY <1>4 DEF Freed, SignIn!FormIsFreed
<1> QED
  BY <1>2, <1>3, <1>4, <1>5, <1>6

LEMMA CallIs ==
    ASSUME Jars, NEW k \in SignIn!Kinds
    PROVE  LET e == SignIn!Call(k) IN e \in Sent /\ e.kind = k /\ e.jar = jar /\ ~e.link
BY DEF Jars, Means, SignIn!Call, Sent

\* What the user does at a form, or on the dashboard.
LEMMA FormKeeps ==
    ASSUME SignInConstants, SignInInv,
           SignIn!Submit \/ SignIn!StartSignIn \/ SignIn!StartLink \/ SignIn!LogOut \/ \E f \in Fields : SignIn!Edit(f)
    PROVE  SignInInv'
<1>1. Jars /\ tab \in Tab /\ SignIn!FormIsFreed /\ steady \in BOOLEAN /\ (steady => ComingHome) /\ MaxAttempts \in Nat
  BY DEF SignInInv, Freed, SignInConstants
<1>2. jar' = jar /\ attempts' = attempts /\ steady' \in BOOLEAN /\ Means(jar')
  BY <1>1 DEF SignIn!Submit, SignIn!StartSignIn, SignIn!StartLink, SignIn!LogOut, SignIn!Edit, Jars
<1>3. ~steady'
  <2>1. CASE SignIn!StartLink \/ SignIn!LogOut
    BY <2>1 DEF SignIn!StartLink, SignIn!LogOut
  <2>2. CASE SignIn!Submit \/ SignIn!StartSignIn \/ \E f \in Fields : SignIn!Edit(f)
    <3>1. SignIn!Form /\ steady' = steady
      BY <2>2 DEF SignIn!Submit, SignIn!StartSignIn, SignIn!Edit
    <3> QED
      BY <1>1, <3>1 DEF SignIn!Form, ComingHome
  <2> QED
    BY <2>1, <2>2
<1>4. onway \in SUBSET onway /\ SignIn!Pending = Cardinality(Urls(onway))
  <2>1. SignIn!Cardinality(Urls(onway)) = Cardinality(Urls(onway))
    BY Zenon DEF SignIn!Cardinality, Cardinality
  <2> QED
    BY <2>1 DEF SignIn!Pending, Urls
<1>5. CASE SignIn!Submit
  <2>1. PICK k \in {"register", "login"} : k = IF tab.path = "register" THEN "register" ELSE "login"
    OBVIOUS
  <2>2. PICK e : e = SignIn!Call(k)
    OBVIOUS
  <2>3. e \in Sent /\ e.kind = k /\ e.jar = jar /\ ~e.link
    BY <1>1, <2>2, CallIs DEF SignIn!Kinds
  <2>4. PICK fs \in SUBSET Fields : fs = tab.wrong \cap SignIn!FormFields
    BY <1>1 DEF SignIn!FormFields
  <2>5. onway' = IF fs # {} THEN onway ELSE onway \cup {e}
    BY <1>5, <2>1, <2>2, <2>4 DEF SignIn!Submit
  <2>6. Jars'
    BY <1>1, <1>2, <1>4, <2>3, <2>5, JarsMove
  <2>7. PICK b \in BOOLEAN : b = (fs = {})
    BY Zenon
  <2>8. tab' = [tab EXCEPT !.marked = fs, !.error = FALSE, !.busy = b]
    BY <1>5, <2>4, <2>7 DEF SignIn!Submit
  <2>9. tab' \in Tab /\ tab'.busy = b
    BY ONLY <1>1, <2>8, fs \in SUBSET Fields, b \in BOOLEAN DEF Tab
  <2>10. b => fs = {}
    BY ONLY Zenon, <2>7
  <2>11. Freed'
    BY <2>3, <2>5, <2>9, <2>10 DEF Freed, SignIn!FormIsFreed
  <2> QED
    BY <1>2, <1>3, <2>6, <2>11 DEF SignInInv
<1>6. CASE SignIn!StartSignIn
  <2>1. PICK e : e = SignIn!Call("url")
    OBVIOUS
  <2>2. e \in Sent /\ e.kind = "url" /\ e.jar = jar /\ ~e.link
    BY <1>1, <2>1, CallIs DEF SignIn!Kinds
  <2>3. onway' = onway \cup {e} /\ Len(attempts) + Cardinality(Urls(onway)) < MaxAttempts
    BY <1>4, <1>6, <2>1 DEF SignIn!StartSignIn
  <2>4. Jars'
    BY <1>1, <1>2, <1>4, <2>2, <2>3, JarsMove
  <2>5. PICK b \in BOOLEAN : tab' = [tab EXCEPT !.busy = TRUE, !.error = b]
    BY <1>1, <1>6 DEF SignIn!StartSignIn, Tab
  <2>6. tab' \in Tab
    BY ONLY <1>1, <2>5, b \in BOOLEAN DEF Tab
  <2>7. Freed'
    BY <2>2, <2>3, <2>6 DEF Freed, SignIn!FormIsFreed
  <2> QED
    BY <1>2, <1>3, <2>4, <2>7 DEF SignInInv
<1>7. CASE SignIn!StartLink
  <2>1. PICK e : e = [SignIn!Call("url") EXCEPT !.link = TRUE]
    OBVIOUS
  <2>2. e \in Sent /\ e.kind = "url" /\ e.jar = jar
    BY <1>1, <2>1 DEF Jars, Means, SignIn!Call, Sent, SignIn!Kinds
  <2>3. onway' = onway \cup {e} /\ tab' = tab /\ Len(attempts) + Cardinality(Urls(onway)) < MaxAttempts
    BY <1>4, <1>7, <2>1 DEF SignIn!StartLink
  <2>4. Jars'
    BY <1>1, <1>2, <1>4, <2>2, <2>3, JarsMove
  <2>5. Freed'
    BY <1>1, <2>3 DEF Freed, SignIn!FormIsFreed
  <2> QED
    BY <1>2, <1>3, <2>4, <2>5 DEF SignInInv
<1>8. CASE SignIn!LogOut
  <2>1. PICK e : e = SignIn!Call("logout")
    OBVIOUS
  <2>2. e \in Sent /\ e.kind = "logout" /\ e.jar = jar
    BY <1>1, <2>1, CallIs DEF SignIn!Kinds
  <2>3. onway' = onway \cup {e} /\ tab' = tab
    BY <1>8, <2>1 DEF SignIn!LogOut
  <2>4. Jars'
    BY <1>1, <1>2, <1>4, <2>2, <2>3, JarsMove
  <2>5. Freed'
    BY <1>1, <2>3 DEF Freed, SignIn!FormIsFreed
  <2> QED
    BY <1>2, <1>3, <2>4, <2>5 DEF SignInInv
<1>9. ASSUME NEW f \in Fields, SignIn!Edit(f) PROVE SignInInv'
  <2>1. PICK ws \in SUBSET Fields, ms \in SUBSET Fields : tab' = [tab EXCEPT !.wrong = ws, !.marked = ms]
    <3>1. tab.wrong \in SUBSET Fields /\ tab.marked \in SUBSET Fields
      BY <1>1 DEF Tab
    <3> QED
      BY <1>9, <3>1 DEF SignIn!Edit
  <2>2. tab' \in Tab /\ tab'.busy = tab.busy
    BY ONLY <1>1, <2>1, ws \in SUBSET Fields, ms \in SUBSET Fields DEF Tab
  <2>3. onway' = onway
    BY <1>9 DEF SignIn!Edit
  <2>4. Jars'
    BY <1>1, <1>2, <2>3 DEF Jars, Means
  <2>5. Freed'
    BY <1>1, <2>2, <2>3 DEF Freed, SignIn!FormIsFreed
  <2> QED
    BY <1>2, <1>3, <2>4, <2>5 DEF SignInInv
<1> QED
  BY <1>5, <1>6, <1>7, <1>8, <1>9

\* The routes are shown.
LEMMA BootKeeps == ASSUME SignInConstants, SignInInv, SignIn!Boot PROVE SignInInv'
<1>1. Jars /\ tab \in Tab /\ SignIn!FormIsFreed /\ steady \in BOOLEAN /\ (steady => ComingHome) /\ MaxAttempts \in Nat
  BY DEF SignInInv, Freed, SignInConstants
<1>2. jar' = jar /\ attempts' = attempts /\ steady' = steady /\ Means(jar') /\ ~tab.booted
  BY <1>1 DEF SignIn!Boot, Jars
<1>3. PICK t : t = [tab EXCEPT !.booted = TRUE]
  OBVIOUS
<1>4. t \in Tab /\ t.booted = TRUE /\ t.path = tab.path /\ t.user = tab.user /\ t.loading = tab.loading /\ t.busy = tab.busy
  BY ONLY <1>1, <1>3 DEF Tab
<1>5. PICK z : z = SignIn!Settled(t)
  OBVIOUS
<1>6. z \in Tab /\ z.booted = TRUE /\ z.user = tab.user /\ z.loading = tab.loading /\ (z.busy => tab.busy)
      /\ z.path = IF tab.loading THEN tab.path ELSE SignIn!Target(t)
  BY ONLY <1>4, <1>5, SettledIs
<1>7. PICK e : e = SignIn!Call("refresh")
  OBVIOUS
<1>8. e \in Sent /\ e.kind = "refresh" /\ e.jar = jar
  BY <1>1, <1>7, CallIs DEF SignIn!Kinds
<1>9. tab' = (IF tab.path = "callback" THEN [z EXCEPT !.loading = TRUE] ELSE z)
      /\ onway' = (IF tab.path = "callback" THEN onway \cup {e} ELSE onway)
  BY <1>3, <1>5, <1>7 DEF SignIn!Boot
<1>10. tab' \in Tab /\ tab'.booted = TRUE /\ tab'.user = tab.user /\ (tab'.busy => tab.busy) /\ tab'.path = z.path
       /\ (tab.path = "callback" => tab'.loading = TRUE)
  <2>1. CASE tab.path = "callback"
    <3>1. tab' = [z EXCEPT !.loading = TRUE]
      BY <1>9, <2>1
    <3> QED
      BY ONLY <1>6, <3>1 DEF Tab
  <2>2. CASE tab.path # "callback"
    BY <1>6, <1>9, <2>2
  <2> QED
    BY <2>1, <2>2
<1>11. Jars'
  <2>1. onway \in SUBSET onway
    OBVIOUS
  <2> QED
    BY <1>1, <1>2, <1>8, <1>9, <2>1, JarsMove
<1>12. Freed'
  BY <1>1, <1>9, <1>10 DEF Freed, SignIn!FormIsFreed
<1>13. ASSUME steady PROVE ComingHome'
  <2>1. jar.user # None /\ tab.path = "callback" /\ tab.user = (IF tab.loading THEN None ELSE jar.user)
        /\ \A c \in onway : c.kind \in {"me", "refresh"} /\ c.jar = jar
    BY <1>1, <1>2, <1>13 DEF ComingHome
  <2>2. onway' = onway \cup {e}
    BY <1>9, <2>1
  <2>3. tab.loading => tab'.path = "callback"
    BY <1>6, <1>10, <2>1
  <2>4. ~tab.loading => tab'.path = "home"
    <3>1. ~tab.loading => SignIn!Target(t) = "home"
      BY <1>4, <2>1 DEF SignIn!Target, SignIn!Public
    <3> QED
      BY <1>6, <1>10, <3>1
  <2> QED
    BY <1>2, <1>8, <1>10, <2>1, <2>2, <2>3, <2>4 DEF ComingHome
<1> QED
  BY <1>1, <1>2, <1>11, <1>12, <1>13 DEF SignInInv

\* What an answer makes of the page, if it goes to another place by itself.
LEMMA AnsweredIs ==
    ASSUME tab \in Tab, NEW u \in Users \cup {None}, NEW l \in BOOLEAN, NEW b \in BOOLEAN,
           tab' = SignIn!Settled([tab EXCEPT !.user = u, !.loading = l, !.busy = b])
    PROVE  /\ tab' \in Tab /\ tab'.user = u /\ tab'.booted = tab.booted /\ tab'.loading = l /\ (tab'.busy => b)
           /\ tab'.path = IF ~tab.booted \/ l THEN tab.path
                          ELSE SignIn!Target([tab EXCEPT !.user = u, !.loading = l, !.busy = b])
<1>1. PICK t : t = [tab EXCEPT !.user = u, !.loading = l, !.busy = b]
  OBVIOUS
<1>2. t \in Tab /\ t.user = u /\ t.loading = l /\ t.busy = b /\ t.booted = tab.booted /\ t.path = tab.path
  BY ONLY <1>1, tab \in Tab, u \in Users \cup {None}, l \in BOOLEAN, b \in BOOLEAN DEF Tab
<1>3. tab' = SignIn!Settled(t)
  BY <1>1
<1> QED
  BY <1>1, <1>2, <1>3, SettledIs

LEMMA KnownKeeps ==
    ASSUME SignInConstants, SignInInv, NEW c \in onway, SignIn!Known(c), onway' = onway \ {c}, steady' = steady
    PROVE  SignInInv'
<1>1. Jars /\ tab \in Tab /\ SignIn!FormIsFreed /\ steady \in BOOLEAN /\ (steady => ComingHome) /\ MaxAttempts \in Nat
  BY DEF SignInInv, Freed, SignInConstants
<1>2. jar' = jar /\ attempts' = attempts /\ Means(jar') /\ c.kind \in {"me", "refresh"}
  BY <1>1 DEF SignIn!Known, Jars
<1>3. PICK u \in Users \cup {None} : u = c.jar.user
  BY <1>1 DEF Jars, Means, Cookie
<1>4. PICK b \in BOOLEAN : b = tab.busy
  BY <1>1 DEF Tab
<1>5. tab' = SignIn!Settled([tab EXCEPT !.user = u, !.loading = FALSE, !.busy = b])
  <2>1. [tab EXCEPT !.user = u, !.loading = FALSE] = [tab EXCEPT !.user = u, !.loading = FALSE, !.busy = b]
    BY ONLY <1>1, <1>4 DEF Tab
  <2> QED
    BY <1>3, <2>1 DEF SignIn!Known
<1>6. /\ tab' \in Tab /\ tab'.user = u /\ tab'.booted = tab.booted /\ tab'.loading = FALSE /\ (tab'.busy => b)
      /\ tab'.path = IF ~tab.booted THEN tab.path ELSE SignIn!Target([tab EXCEPT !.user = u, !.loading = FALSE, !.busy = b])
  BY <1>1, <1>5, AnsweredIs
<1>7. Jars'
  <2>1. onway \ {c} \in SUBSET onway /\ c \in Sent
    BY <1>1 DEF Jars
  <2>2. PICK e : e \in Sent /\ e.jar = jar /\ e.kind = "me"
    <3>1. jar \in Cookie
      BY <1>1 DEF Jars, Means
    <3> QED
      BY <1>1, CallIs DEF SignIn!Kinds
  <2> QED
    BY <1>1, <1>2, <2>1, <2>2, JarsMove
<1>8. Freed'
  BY <1>1, <1>2, <1>4, <1>6 DEF Freed, SignIn!FormIsFreed
<1>9. ASSUME steady PROVE ComingHome'
  <2>1. jar.user # None /\ (\A x \in onway : x.kind \in {"me", "refresh"} /\ x.jar = jar) /\ tab.path \in {"callback", "home"}
        /\ (~tab.booted => tab.path = "callback") /\ u = jar.user
    BY <1>1, <1>3, <1>9 DEF ComingHome
  <2>2. tab.booted => tab'.path = "home"
    <3>1. tab.booted => SignIn!Target([tab EXCEPT !.user = u, !.loading = FALSE, !.busy = b]) = "home"
      <4>1. PICK t : t = [tab EXCEPT !.user = u, !.loading = FALSE, !.busy = b]
        OBVIOUS
      <4>2. t.user = u /\ t.path = tab.path
        BY ONLY <1>1, <4>1 DEF Tab
      <4>3. SignIn!Target(t) = "home"
        BY <2>1, <4>2 DEF SignIn!Target, SignIn!Public
      <4> QED
        BY <4>1, <4>3
    <3> QED
      BY <1>6, <3>1
  <2> QED
    BY <1>2, <1>6, <2>1, <2>2 DEF ComingHome
<1> QED
  BY <1>1, <1>7, <1>8, <1>9 DEF SignInInv

LEMMA SignedKeeps ==
    ASSUME SignInConstants, SignInInv, NEW c \in onway, SignIn!LoggedIn(c) \/ SignIn!LoggedOut(c),
           onway' = onway \ {c}, steady' = steady
    PROVE  SignInInv'
<1>1. Jars /\ tab \in Tab /\ SignIn!FormIsFreed /\ steady \in BOOLEAN /\ (steady => ComingHome) /\ MaxAttempts \in Nat
  BY DEF SignInInv, Freed, SignInConstants
<1>2. attempts' = attempts /\ c \in Sent /\ Means(c.jar) /\ c.kind \in {"login", "logout"}
  BY <1>1 DEF SignIn!LoggedIn, SignIn!LoggedOut, Jars
<1>3. ~steady
  BY <1>1, <1>2 DEF ComingHome
<1>4. Means(jar')
  <2>1. CASE SignIn!LoggedIn(c)
    <3>1. PICK u \in Users : jar' = [c.jar EXCEPT !.user = u]
      BY <2>1 DEF SignIn!LoggedIn
    <3>2. jar' \in Cookie /\ jar'.state = c.jar.state /\ jar'.link = c.jar.link
      BY <1>2, <3>1 DEF Means, Cookie
    <3> QED
      BY <1>2, <3>2 DEF Means
  <2>2. CASE SignIn!LoggedOut(c)
    BY <1>1, <2>2 DEF SignIn!LoggedOut, SignIn!Empty, Means, Cookie, Jars
  <2> QED
    BY <2>1, <2>2
<1>5. PICK l \in BOOLEAN, b \in BOOLEAN : l = tab.loading /\ b = (IF c.kind = "login" THEN FALSE ELSE tab.busy)
  BY <1>1 DEF Tab
<1>6. PICK u \in Users \cup {None} : tab' = SignIn!Settled([tab EXCEPT !.user = u, !.loading = l, !.busy = b])
  <2>1. CASE SignIn!LoggedIn(c)
    <3>1. PICK u \in Users : tab' = SignIn!Settled([tab EXCEPT !.user = u, !.busy = FALSE])
      BY <2>1 DEF SignIn!LoggedIn
    <3>2. [tab EXCEPT !.user = u, !.busy = FALSE] = [tab EXCEPT !.user = u, !.loading = l, !.busy = b]
      BY <1>1, <1>5, <2>1 DEF Tab, SignIn!LoggedIn
    <3> QED
      BY <3>1, <3>2
  <2>2. CASE SignIn!LoggedOut(c)
    <3>1. [tab EXCEPT !.user = None] = [tab EXCEPT !.user = None, !.loading = l, !.busy = b]
      BY <1>1, <1>5, <2>2 DEF Tab, SignIn!LoggedOut
    <3> QED
      BY <2>2, <3>1 DEF SignIn!LoggedOut
  <2> QED
    BY <2>1, <2>2
<1>7. tab' \in Tab /\ (tab'.busy => b)
  BY <1>1, <1>6, AnsweredIs
<1>8. Jars'
  <2>1. onway \ {c} \in SUBSET onway
    OBVIOUS
  <2>2. PICK e : e \in Sent /\ e.jar = jar /\ e.kind = "me"
    BY <1>1, CallIs DEF SignIn!Kinds
  <2> QED
    BY <1>1, <1>2, <1>4, <2>1, <2>2, JarsMove
<1>9. Freed'
  BY <1>1, <1>2, <1>5, <1>7 DEF Freed, SignIn!FormIsFreed
<1> QED
  BY <1>1, <1>3, <1>8, <1>9 DEF SignInInv

\* The page leaves for the provider, with one request less than were counted.
LEMMA RedirectedKeeps ==
    ASSUME SignInConstants, SignInInv, NEW c \in onway, SignIn!Redirected(c), onway' = {}, steady' = steady
    PROVE  SignInInv'
<1>1. Jars /\ steady \in BOOLEAN /\ (steady => ComingHome) /\ MaxAttempts \in Nat
  BY DEF SignInInv, SignInConstants
<1>2. c \in Sent /\ Means(c.jar) /\ c.kind = "url"
  BY <1>1 DEF SignIn!Redirected, Jars
<1>3. ~steady
  BY <1>1, <1>2 DEF ComingHome
<1>4. PICK l \in BOOLEAN : l = (c.link /\ c.jar.user # None)
  BY Zenon
<1>13. PICK u \in Users \cup {None} : u = c.jar.user
  BY <1>2 DEF Means, Cookie
<1>14. PICK n \in Nat : n = Len(attempts)
  BY <1>1 DEF Jars
<1>5. attempts' = Append(attempts, [link |-> l, user |-> u]) /\ jar' = [c.jar EXCEPT !.state = n + 1, !.link = l]
  BY <1>4, <1>13, <1>14 DEF SignIn!Redirected, SignIn!Intent
<1>6. /\ attempts' \in Seq([link : BOOLEAN, user : Users \cup {None}]) /\ Len(attempts') = n + 1
      /\ attempts'[n + 1].link = l
  BY <1>1, <1>14, <1>5 DEF Jars
<1>7. Means(jar)'
  <2>1. PICK m \in Nat : m = n + 1
    OBVIOUS
  <2>2. c.jar \in Cookie /\ jar' = [c.jar EXCEPT !.state = m, !.link = l]
    BY <1>2, <1>5, <2>1 DEF Means
  <2>3. jar' \in Cookie /\ jar'.state = m /\ jar'.link = l
    BY ONLY <2>2, m \in Nat, l \in BOOLEAN DEF Cookie
  <2> QED
    BY <1>14, <1>6, <2>1, <2>3 DEF Means
<1>8. n + 1 <= MaxAttempts
  <2>1. Cardinality(Urls(onway)) >= 1 /\ Cardinality(Urls(onway)) \in Nat
    BY <1>1, <1>2, UrlsAreCounted DEF Jars
  <2>2. n + Cardinality(Urls(onway)) <= MaxAttempts
    BY <1>1, <1>14 DEF Jars
  <2> QED
    BY ONLY <1>1, <2>1, <2>2, n \in Nat
<1>9. IsFiniteSet(onway') /\ Cardinality(Urls(onway')) = 0
  <2>1. Urls({}) = {}
    BY DEF Urls
  <2> QED
    BY <2>1, FS_EmptySet
<1>10. Jars'
  <2>1. Len(attempts') + Cardinality(Urls(onway')) <= MaxAttempts
    BY <1>14, <1>6, <1>8, <1>9
  <2> QED
    BY <1>6, <1>7, <1>9, <2>1 DEF Jars, Urls
<1>11. Freed'
  <2>1. PICK z : z = SignIn!Fresh("provider")
    OBVIOUS
  <2>2. z \in Tab /\ z.busy = FALSE
    BY <2>1, FreshIs DEF SignIn!Paths
  <2>3. tab' = [z EXCEPT !.loading = FALSE]
    BY <2>1 DEF SignIn!Redirected
  <2>4. tab' \in Tab /\ tab'.busy = FALSE
    BY ONLY <2>2, <2>3 DEF Tab
  <2> QED
    BY <2>4 DEF Freed, SignIn!FormIsFreed
<1> QED
  BY <1>1, <1>3, <1>10, <1>11 DEF SignInInv

LEMMA FailedKeeps == ASSUME SignInConstants, SignInInv, NEW c \in onway, SignIn!Failed(c) PROVE SignInInv'
<1>1. Jars /\ tab \in Tab /\ SignIn!FormIsFreed /\ MaxAttempts \in Nat
  BY DEF SignInInv, Freed, SignInConstants
<1>2. jar' = jar /\ attempts' = attempts /\ Means(jar') /\ c \in Sent /\ onway' = onway \ {c} /\ steady' = FALSE
  BY <1>1 DEF SignIn!Failed, Jars
<1>3. Jars'
  <2>1. onway \ {c} \in SUBSET onway
    OBVIOUS
  <2>2. PICK e : e \in Sent /\ e.jar = jar /\ e.kind = "me"
    BY <1>1, CallIs DEF SignIn!Kinds
  <2> QED
    BY <1>1, <1>2, <2>1, <2>2, JarsMove
<1>4. CASE c.kind \in {"me", "refresh"}
  <2>1. PICK b \in BOOLEAN : b = tab.busy
    BY <1>1 DEF Tab
  <2>2. [tab EXCEPT !.user = None, !.loading = FALSE] = [tab EXCEPT !.user = None, !.loading = FALSE, !.busy = b]
    BY ONLY <1>1, <2>1 DEF Tab
  <2>6. tab' = SignIn!Settled([tab EXCEPT !.user = None, !.loading = FALSE])
    BY <1>2, <1>4 DEF SignIn!Failed, Sent
  <2>3. tab' = SignIn!Settled([tab EXCEPT !.user = None, !.loading = FALSE, !.busy = b])
    BY <2>2, <2>6
  <2>4. tab' \in Tab /\ (tab'.busy => b)
    BY <1>1, <2>3, AnsweredIs
  <2>5. Freed'
    BY <1>1, <1>2, <1>4, <2>1, <2>4 DEF Freed, SignIn!FormIsFreed
  <2> QED
    BY <1>2, <1>3, <2>5 DEF SignInInv
<1>5. CASE c.kind \notin {"me", "refresh"} /\ (c.kind = "logout" \/ c.link)
  <2>1. tab' = tab
    BY <1>5 DEF SignIn!Failed
  <2>2. Freed'
    BY <1>1, <1>2, <1>5, <2>1 DEF Freed, SignIn!FormIsFreed
  <2> QED
    BY <1>2, <1>3, <2>2 DEF SignInInv
<1>6. CASE c.kind \notin {"me", "refresh"} /\ ~(c.kind = "logout" \/ c.link)
  <2>1. tab' = [tab EXCEPT !.busy = FALSE, !.error = TRUE]
    BY <1>6 DEF SignIn!Failed
  <2>2. tab' \in Tab /\ tab'.busy = FALSE
    BY ONLY <1>1, <2>1 DEF Tab
  <2>3. Freed'
    BY <2>2 DEF Freed, SignIn!FormIsFreed
  <2> QED
    BY <1>2, <1>3, <2>3 DEF SignInInv
<1> QED
  BY <1>4, <1>5, <1>6

\* The page is loaded: by the user, after a registration, or on the way back.
LEMMA OpenKeeps ==
    ASSUME SignInConstants, SignInInv,
           \/ \E p \in {"landing", "login", "register", "home"} : SignIn!Open(p)
           \/ \E c \in onway : SignIn!Registered(c)
           \/ \E n \in DOMAIN attempts : SignIn!Return(n)
    PROVE  SignInInv'
<1>1. Jars /\ steady \in BOOLEAN /\ (steady => ComingHome) /\ Means(jar)
  BY DEF SignInInv, Jars
<1>2. ASSUME NEW p \in SignIn!Paths, NEW j, Means(j), SignIn!Load(p, j), attempts' = attempts, ~steady' /\ steady' \in BOOLEAN
      PROVE  SignInInv'
  <2>1. Jars' /\ Freed'
    BY <1>2, LoadKeeps
  <2> QED
    BY <1>2, <2>1 DEF SignInInv
<1>3. ASSUME NEW p \in {"landing", "login", "register", "home"}, SignIn!Open(p) PROVE SignInInv'
  BY <1>1, <1>2, <1>3 DEF SignIn!Open, SignIn!Paths, SignIn!Public
<1>4. ASSUME NEW c \in onway, SignIn!Registered(c) PROVE SignInInv'
  <2>1. PICK u \in Users : SignIn!Load("login", [c.jar EXCEPT !.user = u])
    BY <1>4 DEF SignIn!Registered
  <2>2. PICK j : j = [c.jar EXCEPT !.user = u]
    OBVIOUS
  <2>3. Means(j)
    <3>1. Means(c.jar)
      BY <1>1 DEF Jars
    <3>2. j \in Cookie /\ j.state = c.jar.state /\ j.link = c.jar.link
      BY <2>2, <3>1 DEF Means, Cookie
    <3> QED
      BY <3>1, <3>2 DEF Means
  <2>4. attempts' = attempts /\ ~steady' /\ steady' \in BOOLEAN
    BY <1>1, <1>4 DEF SignIn!Registered, ComingHome
  <2> QED
    BY <1>2, <2>1, <2>2, <2>3, <2>4 DEF SignIn!Paths, SignIn!Public
<1>5. ASSUME NEW n \in DOMAIN attempts, SignIn!Return(n) PROVE SignInInv'
  <2>1. attempts' = attempts
    BY <1>5 DEF SignIn!Return
  <2>2. CASE SignIn!Link(n)
    <3>1. PICK j \in {[jar EXCEPT !.state = 0, !.link = FALSE], jar} : SignIn!Load("home", j)
      BY <2>2 DEF SignIn!Link
    <3>2. Means(j)
      <4>1. CASE j = [jar EXCEPT !.state = 0, !.link = FALSE]
        <5>1. j \in Cookie /\ j.state = 0
          BY <1>1, <4>1 DEF Means, Cookie
        <5> QED
          BY <1>1, <5>1 DEF Means, Jars
      <4> QED
        BY <1>1, <3>1, <4>1
    <3>3. steady' = FALSE
      BY <2>2 DEF SignIn!Link
    <3> QED
      BY <1>2, <2>1, <3>1, <3>2, <3>3 DEF SignIn!Paths
  <2>3. CASE SignIn!SignIn(n)
    <3>1. CASE SignIn!Load("refused", jar) /\ steady' = FALSE
      BY <1>1, <1>2, <2>1, <3>1 DEF SignIn!Paths, SignIn!Public
    <3>2. CASE \E u \in Users : SignIn!Load("callback", [user |-> u, state |-> 0, link |-> FALSE]) /\ steady' = TRUE
      <4>1. PICK u \in Users : SignIn!Load("callback", [user |-> u, state |-> 0, link |-> FALSE]) /\ steady' = TRUE
        BY <3>2
      <4>2. PICK j : j = [user |-> u, state |-> 0, link |-> FALSE]
        OBVIOUS
      <4>3. Means(j) /\ j.user = u /\ u # None
        BY <1>1, <4>2 DEF Means, Cookie, Jars, SignInConstants
      <4>4. Jars' /\ Freed' /\ jar' = j /\ tab'.path = "callback" /\ tab'.booted = FALSE /\ tab'.user = None /\ tab'.loading = TRUE
            /\ \A c \in onway' : c.kind = "me" /\ c.jar = j
        BY <2>1, <4>1, <4>2, <4>3, LoadKeeps DEF SignIn!Paths
      <4>5. ComingHome'
        BY <4>3, <4>4 DEF ComingHome
      <4> QED
        BY <4>1, <4>4, <4>5 DEF SignInInv
    <3> QED
      BY <2>3, <3>1, <3>2 DEF SignIn!SignIn
  <2>4. CASE SignIn!Stale(n)
    BY <1>1, <1>2, <2>1, <2>4 DEF SignIn!Stale, SignIn!Paths, SignIn!Public
  <2> QED
    BY <1>5, <2>2, <2>3, <2>4 DEF SignIn!Return
<1> QED
  BY <1>3, <1>4, <1>5

LEMMA SignInStep == ASSUME SignInConstants, SignInInv, SignIn!SNext \/ UNCHANGED signin PROVE SignInInv'
<1>1. CASE UNCHANGED signin
  BY <1>1 DEF signin, SignInInv, Jars, Freed, SignIn!FormIsFreed, ComingHome, Means
<1>2. ASSUME NEW c \in onway, SignIn!Answer(c), ~SignIn!Registered(c) PROVE SignInInv'
  <2>1. CASE SignIn!Redirected(c)
    <3>1. onway' = {} /\ steady' = steady
      BY <1>2, <2>1 DEF SignIn!Answer, SignIn!Redirected
    <3> QED
      BY <2>1, <3>1, RedirectedKeeps
  <2>2. CASE SignIn!Known(c)
    <3>1. onway' = onway \ {c} /\ steady' = steady
      BY <1>2, <2>2 DEF SignIn!Answer, SignIn!Known
    <3> QED
      BY <2>2, <3>1, KnownKeeps
  <2>3. CASE SignIn!LoggedIn(c) \/ SignIn!LoggedOut(c)
    <3>1. onway' = onway \ {c} /\ steady' = steady
      BY <1>2, <2>3 DEF SignIn!Answer, SignIn!LoggedIn, SignIn!LoggedOut
    <3> QED
      BY <2>3, <3>1, SignedKeeps
  <2> QED
    BY <1>2, <2>1, <2>2, <2>3 DEF SignIn!Answer
<1> QED
  BY <1>1, <1>2, FormKeeps, BootKeeps, FailedKeeps, OpenKeeps DEF SignIn!SNext, SignIn!Answer

LEMMA SignInStart == ASSUME SignInConstants, SignIn!SInit PROVE SignInInv
<1>1. PICK e : e = [kind |-> "me", jar |-> jar, link |-> FALSE]
  OBVIOUS
<1>2. attempts = <<>> /\ onway = {e} /\ tab = SignIn!Fresh("landing") /\ steady = FALSE
      /\ jar \in [user : Users \cup {None}, state : {0}, link : {FALSE}]
  BY <1>1 DEF SignIn!SInit
<1>3. Means(jar) /\ e \in Sent
  <2>3. PICK v \in Users \cup {None} : jar = [user |-> v, state |-> 0, link |-> FALSE]
    BY <1>2
  <2>1. jar \in Cookie /\ jar.state = 0
    BY <2>3 DEF Cookie
  <2>2. Len(attempts) = 0
    BY <1>2
  <2> QED
    BY <1>1, <2>1, <2>2 DEF Means, Sent, SignIn!Kinds
<1>4. IsFiniteSet(onway)
  BY <1>2, FS_Singleton
<1>5. Cardinality(Urls(onway)) = 0
  <2>1. Urls(onway) = {}
    BY <1>1, <1>2 DEF Urls
  <2> QED
    BY <2>1, FS_EmptySet
<1>6. Jars
  BY <1>1, <1>2, <1>3, <1>4, <1>5 DEF Jars, SignInConstants
<1>7. Freed
  <2>1. tab \in Tab /\ tab.busy = FALSE
    BY <1>2, FreshIs DEF SignIn!Paths, SignIn!Public
  <2> QED
    BY <2>1 DEF Freed, SignIn!FormIsFreed
<1> QED
  BY <1>2, <1>6, <1>7 DEF SignInInv

LEMMA SignInIsHonest ==
    ASSUME SignInConstants, SignInInv
    PROVE  SignIn!STypeOK /\ SignIn!ComesHome /\ SignIn!FormIsFreed /\ SignIn!IntentKept
<1>1. Jars /\ tab \in Tab /\ SignIn!FormIsFreed /\ steady \in BOOLEAN /\ (steady => ComingHome) /\ MaxAttempts \in Nat
  BY DEF SignInInv, Freed, SignInConstants
<1>2. SignIn!ComesHome
  BY <1>1 DEF SignIn!ComesHome, ComingHome
<1>3. SignIn!IntentKept
  BY <1>1 DEF SignIn!IntentKept, Jars, Means
<1>4. Len(attempts) \in Nat /\ Len(attempts) <= MaxAttempts
  <2>1. Cardinality(Urls(onway)) \in Nat /\ Len(attempts) \in Nat /\ Len(attempts) + Cardinality(Urls(onway)) <= MaxAttempts
    BY <1>1, UrlsAreMany DEF Jars
  <2> QED
    BY ONLY <1>1, <2>1
<1>5. ASSUME NEW j, Means(j) PROVE j \in SignIn!Jar
  <2>1. j.state \in 0..MaxAttempts /\ j \in Cookie
    BY ONLY <1>1, <1>4, <1>5 DEF Means
  <2> QED
    BY <2>1 DEF Cookie, SignIn!Jar
<1>6. ASSUME NEW c \in onway PROVE c \in [kind : SignIn!Kinds, jar : SignIn!Jar, link : BOOLEAN]
  <2>1. c \in Sent /\ c.jar \in SignIn!Jar
    BY <1>1, <1>5 DEF Jars
  <2> QED
    BY ONLY <2>1 DEF Sent
<1>7. SignIn!STypeOK
  <2>1. jar \in SignIn!Jar /\ onway \subseteq [kind : SignIn!Kinds, jar : SignIn!Jar, link : BOOLEAN]
    BY <1>1, <1>5, <1>6 DEF Jars
  <2> QED
    BY <1>1, <2>1 DEF SignIn!STypeOK, Jars, Tab
<1> QED
  BY <1>1, <1>2, <1>3, <1>7

-----------------------------------------------------------------------------
(* JobDialog *)

DialogConstants ==
    MaxAsks \in Nat /\ MaxOpens \in Nat /\ None \notin Posts \cup Dialog!Status \cup Dialog!Sel \cup {"ok", "conflict"}

Desk == [sel : Dialog!Sel \cup {None}, ver : Nat, listed : [Posts -> Dialog!Status \cup {None}], offered : SUBSET Posts,
         opens : 0..MaxOpens]
Story == [of : Posts \cup {None}, state : {"shown", "loading", "failed"}, count : Nat]
Notes == [of : Posts, list : Seq(Dialog!Note), draft : 0..MaxAsks, editing : Dialog!Note \cup {None}, loading : BOOLEAN, error : BOOLEAN]
Got == Nat \cup Dialog!Note \cup SUBSET Dialog!Note
Question == [id : 0..MaxAsks, kind : {"events", "notes", "create", "update"} \cup Dialog!Writing, post : Posts,
             status : Dialog!Status \cup {None}, told : BOOLEAN, text : 0..MaxAsks, note : Dialog!Note \cup {None},
             reply : {None, "ok", "conflict"}, got : Got]

\* What a question was asked with, and what its answer is.
Asked(a) ==
    /\ a.kind \in {"create", "update"} => a.status \in Dialog!Status
    /\ a.kind \in {"write", "edit"} => a.id \in 1..MaxAsks /\ a.text \in 1..MaxAsks
    /\ a.kind \in {"edit", "delete"} => a.note \in Dialog!Note
    /\ a.reply = "ok" => /\ a.kind = "events" => a.got \in Nat
                         /\ a.kind = "notes" => a.got \in SUBSET Dialog!Note
                         /\ a.kind = "write" => a.got = Dialog!Fresh(a)
    /\ a.reply = "conflict" => a.kind = "create"
Server ==
    /\ kept \in [Posts -> Dialog!Status \cup {None}] /\ past \in [Posts -> Nat] /\ remarks \in [Posts -> SUBSET Dialog!Note]
Dialogue ==
    /\ Server /\ desk \in Desk /\ story \in Story 
    /\ asks \subseteq Question /\ (\A a \in asks : Asked(a))
    /\ queries \in 0..MaxAsks /\ quiet \in BOOLEAN /\ confirmed \in [Posts -> Nat]

\* What is read is of the job shown; its history has what its detail was seen.
Current(a) ==
    /\ a.kind \in {"events", "notes"} => Dialog!Tracked(desk) /\ a.post = desk.sel.post
    /\ a.kind = "events" /\ a.reply = "ok" => a.got >= confirmed[a.post]
Section(d, ns) == IF Dialog!Tracked(d) THEN ns \in Notes /\ ns.of = d.sel.post ELSE ns = None
CurrentStory(d, s, seen) == Dialog!Tracked(d) /\ s.state = "shown" => s.of = d.sel.post /\ s.count >= seen[s.of]
History ==
    /\ \A p \in Posts : confirmed[p] <= past[p]
    /\ \A a \in asks : Current(a)
    /\ CurrentStory(desk, story, confirmed)
    /\ Section(desk, notes)
DialogInv == Dialogue /\ History

LEMMA ViewingIs ==
    ASSUME DialogConstants, NEW d \in Desk
    PROVE  Dialog!Tracked(d) => d.sel \in Dialog!Sel /\ d.sel # None /\ Dialog!Viewing(d) = d.sel /\ d.sel.post \in Posts
<1>1. Dialog!Viewing(d) # None => d.sel # None /\ Dialog!Viewing(d) = d.sel
  BY DEF Dialog!Viewing
<1>2. Dialog!Tracked(d) => d.sel \in Dialog!Sel
  BY <1>1 DEF Dialog!Tracked, Desk
<1> QED
  BY <1>1, <1>2 DEF Dialog!Tracked, Dialog!Sel

LEMMA AskIs ==
    ASSUME DialogConstants, NEW k \in {"events", "notes", "create", "update"} \cup Dialog!Writing, NEW p \in Posts, NEW a, a = Dialog!Ask(k, p)
    PROVE  a \in Question /\ a.kind = k /\ a.post = p /\ a.reply = None
<1>1. 0 \in 0..MaxAsks /\ {} \in Got
  BY DEF DialogConstants, Got
<1> QED
  BY <1>1 DEF Dialog!Ask, Question

\* The page is rendered: what effects ask for is of the job shown, and what is no longer
\* waited for is gone.
LEMMA RenderKeeps ==
    ASSUME DialogConstants, DialogInv, NEW d \in Desk, NEW rest \in SUBSET asks, Dialog!Render(d, rest),
           UNCHANGED <<kept, past, remarks, queries>>, confirmed' \in [Posts -> Nat],
           \A p \in Posts : confirmed'[p] <= past[p],
           confirmed' = confirmed \/ d.ver # desk.ver
    PROVE  DialogInv'
<1>1. Dialogue /\ History
  BY DEF DialogInv
<1>2. PICK reads : reads = IF Dialog!Rereads(d) THEN {Dialog!Ask("events", Dialog!Viewing(d).post)} ELSE {}
  OBVIOUS
<1>3. PICK lists : lists = IF Dialog!Mounts(d) THEN {Dialog!Ask("notes", Dialog!Viewing(d).post)} ELSE {}
  OBVIOUS
<1>4. PICK stays : stays = {a \in rest : /\ a.kind = "events" => Dialog!Tracked(d) /\ ~Dialog!Rereads(d)
                                         /\ a.kind = "notes" => Dialog!Tracked(d) /\ ~Dialog!Mounts(d)}
  OBVIOUS
<1>5. desk' = d /\ asks' = stays \cup reads \cup lists
  BY <1>2, <1>3, <1>4 DEF Dialog!Render
<1>6. Dialog!Tracked(d) => d.sel \in Dialog!Sel /\ d.sel # None /\ Dialog!Viewing(d) = d.sel /\ d.sel.post \in Posts
  BY ViewingIs
<1>7. Dialog!Tracked(desk) => desk.sel \in Dialog!Sel /\ Dialog!Viewing(desk) = desk.sel
  BY <1>1, ViewingIs DEF Dialogue
<1>8. Dialog!Tracked(d) /\ ~Dialog!Rereads(d) => Dialog!Tracked(desk) /\ d.sel = desk.sel /\ confirmed' = confirmed
  <2>1. Dialog!Tracked(d) /\ ~Dialog!Rereads(d) => Dialog!Viewing(d) = Dialog!Viewing(desk) /\ d.ver = desk.ver
    BY DEF Dialog!Rereads
  <2> QED
    BY <1>6, <1>7, <2>1 DEF Dialog!Tracked
<1>9. \A a \in reads : a \in Question /\ a.kind = "events" /\ a.reply = None /\ Dialog!Tracked(d) /\ a.post = d.sel.post
  <2>1. CASE Dialog!Rereads(d)
    <3>1. Dialog!Tracked(d) /\ d.sel.post \in Posts /\ reads = {Dialog!Ask("events", d.sel.post)} /\ "events" \in {"events", "notes", "create", "update"}
      BY <1>2, <1>6, <2>1 DEF Dialog!Rereads
    <3>2. PICK p \in Posts : p = d.sel.post
      BY <3>1
    <3>3. PICK k \in {"events", "notes", "create", "update"} \cup Dialog!Writing : k = "events"
      OBVIOUS
    <3>4. PICK e : e = Dialog!Ask(k, p)
      OBVIOUS
    <3>7. e \in Question /\ e.kind = "events" /\ e.post = p /\ e.reply = None
      BY <3>3, <3>4, AskIs
    <3>5. \A a \in reads : a = e
      BY <3>1, <3>2, <3>3, <3>4
    <3>6. Dialog!Tracked(d)
      BY <3>1
    <3> QED
      BY ONLY <3>2, <3>7, <3>5, <3>6
  <2> QED
    BY <1>2, <2>1
<1>10. \A a \in lists : a \in Question /\ a.kind = "notes" /\ a.reply = None /\ Dialog!Tracked(d) /\ a.post = d.sel.post
  <2>1. CASE Dialog!Mounts(d)
    <3>1. d.sel.post \in Posts /\ lists = {Dialog!Ask("notes", d.sel.post)} /\ "notes" \in {"events", "notes", "create", "update"}
      BY <1>3, <1>6, <2>1 DEF Dialog!Mounts
    <3>2. PICK p \in Posts : p = d.sel.post
      BY <3>1
    <3>3. PICK k \in {"events", "notes", "create", "update"} \cup Dialog!Writing : k = "notes"
      OBVIOUS
    <3>4. PICK e : e = Dialog!Ask(k, p)
      OBVIOUS
    <3>7. e \in Question /\ e.kind = "notes" /\ e.post = p /\ e.reply = None
      BY <3>3, <3>4, AskIs
    <3>5. \A a \in lists : a = e
      BY <3>1, <3>2, <3>3, <3>4
    <3>6. Dialog!Tracked(d)
      BY <2>1 DEF Dialog!Mounts
    <3> QED
      BY ONLY <3>2, <3>7, <3>5, <3>6
  <2> QED
    BY <1>3, <2>1
<1>11. asks' \subseteq Question /\ \A a \in asks' : Asked(a)
  <2>1. \A a \in reads \cup lists : Asked(a)
    BY <1>9, <1>10 DEF Asked, Dialog!Writing, DialogConstants
  <2> QED
    BY <1>1, <1>4, <1>5, <1>9, <1>10, <2>1 DEF Dialogue
<1>18. Dialog!Tracked(d) /\ ~Dialog!Mounts(d) => Dialog!Tracked(desk) /\ d.sel = desk.sel
  <2>1. Dialog!Tracked(d) /\ ~Dialog!Mounts(d) => Dialog!Viewing(d) = Dialog!Viewing(desk)
    BY DEF Dialog!Mounts
  <2> QED
    BY <1>6, <1>7, <2>1 DEF Dialog!Tracked
<1>12. ASSUME NEW a \in asks' PROVE Current(a)'
  <2>1. CASE a \in stays
    <3>1. Current(a)
      BY <1>1, <1>4, <2>1 DEF History
    <3>2. CASE a.kind = "events"
      BY <1>4, <1>5, <1>8, <2>1, <3>1, <3>2 DEF Current
    <3>3. CASE a.kind = "notes"
      BY <1>4, <1>5, <1>18, <2>1, <3>1, <3>3 DEF Current
    <3> QED
      BY <3>2, <3>3 DEF Current
  <2>2. CASE a \in reads
    BY <1>5, <1>9, <2>2 DEF Current, DialogConstants
  <2>3. CASE a \in lists
    BY <1>5, <1>10, <2>3 DEF Current, DialogConstants
  <2> QED
    BY <1>5, <2>1, <2>2, <2>3
<1>13. story' \in Story /\ CurrentStory(d, story', confirmed')
  <2>1. CASE Dialog!Viewing(d) = None
    <3>1. ~Dialog!Tracked(d) /\ ~Dialog!Rereads(d)
      BY <2>1 DEF Dialog!Tracked, Dialog!Rereads
    <3>2. story' = [of |-> None, state |-> "shown", count |-> 0]
      BY <2>1, <3>1 DEF Dialog!Render
    <3> QED
      BY <3>1, <3>2 DEF Story, CurrentStory
  <2>2. CASE Dialog!Rereads(d)
    <3>1. Dialog!Viewing(d) # None
      BY <2>2 DEF Dialog!Tracked, Dialog!Rereads
    <3>2. story' = [story EXCEPT !.state = "loading"]
      BY <2>2, <3>1 DEF Dialog!Render
    <3>3. story' \in Story /\ story'.state = "loading"
      BY <1>1, <3>2 DEF Dialogue, Story
    <3> QED
      BY <3>3 DEF CurrentStory
  <2>3. CASE Dialog!Viewing(d) # None /\ ~Dialog!Rereads(d)
    <3>1. story' = story
      BY <2>3 DEF Dialog!Render
    <3>2. CurrentStory(desk, story, confirmed) /\ story \in Story
      BY <1>1 DEF History, Dialogue
    <3> QED
      BY ONLY <1>8, <2>3, <3>1, <3>2 DEF CurrentStory
  <2> QED
    BY <2>1, <2>2, <2>3
<1>14. Section(d, notes')
  <2>1. CASE ~Dialog!Tracked(d)
    <3>1. ~Dialog!Mounts(d)
      BY <2>1 DEF Dialog!Mounts
    <3> QED
      BY <2>1, <3>1 DEF Dialog!Render, Section
  <2>2. CASE Dialog!Tracked(d) /\ Dialog!Mounts(d) /\ notes = None
    <3>1. PICK p \in Posts : p = Dialog!Viewing(d).post /\ p = d.sel.post
      BY <1>6, <2>2
    <3>2. notes' = [of |-> p, list |-> <<>>, draft |-> 0, editing |-> None, loading |-> TRUE, error |-> FALSE]
      BY <2>2, <3>1 DEF Dialog!Render
    <3>3. 0 \in 0..MaxAsks
      BY DEF DialogConstants
    <3> QED
      BY <2>2, <3>1, <3>2, <3>3 DEF Notes, Section
  <2>3. CASE Dialog!Tracked(d) /\ ~(Dialog!Mounts(d) /\ notes = None)
    <3>1. PICK p \in Posts : p = Dialog!Viewing(d).post /\ p = d.sel.post
      BY <1>6, <2>3
    <3>2. notes' = IF notes = None THEN None ELSE [notes EXCEPT !.of = p]
      BY <2>3, <3>1 DEF Dialog!Render
    <3>3. Section(desk, notes)
      BY <1>1 DEF History
    <3>4. CASE notes = None
      <4>1. ~Dialog!Mounts(d)
        BY <2>3, <3>4
      <4> QED
        BY <1>18, <2>3, <3>1, <3>2, <3>3, <3>4, <4>1 DEF Section
    <3>5. CASE notes # None
      <4>1. notes \in Notes
        BY <3>3, <3>5 DEF Section
      <4>2. notes' \in Notes /\ notes'.of = p
        BY <3>2, <3>5, <4>1 DEF Notes
      <4> QED
        BY <2>3, <3>1, <4>2 DEF Section
    <3> QED
      BY <3>4, <3>5
  <2> QED
    BY <2>1, <2>2, <2>3
<1>15. quiet' \in BOOLEAN
  BY <1>1 DEF Dialog!Render, Dialogue
<1>16. Dialogue'
  BY <1>1, <1>5, <1>11, <1>13, <1>15 DEF Dialogue, Server
<1>17. History'
  BY <1>5, <1>12, <1>13, <1>14 DEF History
<1> QED
  BY <1>16, <1>17 DEF DialogInv

LEMMA DialogOnly == ASSUME NEW s, NEW S PROVE Dialog!Only(s, S) = Only(s, S)
BY Zenon DEF Dialog!Only, Dialog!Ascending, Dialog!InOrder, Dialog!Less, Dialog!Cardinality,
             Only, Ascending, InOrder, Less, Cardinality

LEMMA DialogInSomeOrder == ASSUME NEW S PROVE Dialog!InSomeOrder(S) = InSomeOrder(S)
BY Zenon DEF Dialog!InSomeOrder, Dialog!Cardinality, Dialog!Entries, InSomeOrder, Cardinality, Entries

LEMMA NotesAreFinite == ASSUME DialogConstants PROVE IsFiniteSet(Dialog!Note)
<1>1. PICK I : I = 1..MaxAsks /\ IsFiniteSet(I)
  <2>1. MaxAsks \in Nat
    BY DEF DialogConstants
  <2> QED
    BY <2>1, FS_Interval
<1>2. IsFiniteSet(I \X I)
  BY <1>1, FS_Product
<1>3. PICK f : f = [p \in I \X I |-> [id |-> p[1], text |-> p[2]]]
  OBVIOUS
<1>4. f \in Surjection(I \X I, Dialog!Note)
  <2>1. f \in [I \X I -> Dialog!Note]
    BY <1>1, <1>3 DEF Dialog!Note
  <2>2. ASSUME NEW n \in Dialog!Note PROVE \E p \in I \X I : f[p] = n
    <3>1. <<n.id, n.text>> \in I \X I /\ n = [id |-> n.id, text |-> n.text]
      BY <1>1 DEF Dialog!Note
    <3> QED
      BY ONLY <1>3, <3>1
  <2> QED
    BY <2>1, <2>2 DEF Surjection
<1> QED
  BY <1>2, <1>4, FS_Surjection

\* The page stays as it is: the questions, what the server has and what is shown change.
LEMMA DeskStays ==
    ASSUME DialogConstants, DialogInv, UNCHANGED <<desk, confirmed>>, Server', \A p \in Posts : past[p] <= past'[p],
           queries' \in 0..MaxAsks, quiet' \in BOOLEAN, Section(desk, notes'),
           story' = story \/ (story' \in Story /\ CurrentStory(desk, story', confirmed)),
           \A q \in asks' : q \in asks \/ (q \in Question /\ Asked(q) /\ Current(q))
    PROVE  DialogInv'
<1>1. Dialogue /\ History
  BY DEF DialogInv
<1>2. asks' \subseteq Question /\ \A q \in asks' : Asked(q) /\ Current(q)
  BY <1>1 DEF Dialogue, History
<1>3. \A q \in asks' : Current(q)'
  BY <1>2 DEF Current
<1>4. \A p \in Posts : confirmed'[p] <= past'[p]
  <2>1. past \in [Posts -> Nat] /\ past' \in [Posts -> Nat] /\ confirmed \in [Posts -> Nat]
    BY <1>1 DEF Dialogue, Server
  <2> QED
    BY <1>1, <2>1 DEF History
<1>5. story' \in Story /\ CurrentStory(desk, story', confirmed)
  BY <1>1 DEF Dialogue, History
<1>6. Dialogue'
  BY <1>1, <1>2, <1>5 DEF Dialogue
<1>7. History'
  BY <1>3, <1>4, <1>5 DEF History
<1> QED
  BY <1>6, <1>7 DEF DialogInv

\* The user asks something that is not a history or a list of notes.
LEMMA StartKeepsDialog ==
    ASSUME DialogConstants, DialogInv, NEW a, Dialog!Start(a), a \in Question, a.kind \notin {"events", "notes"},
           a.reply = None, UNCHANGED <<kept, past, remarks, desk, story, notes, confirmed>>, quiet' \in BOOLEAN,
           a.kind \in {"create", "update"} => a.status \in Dialog!Status,
           a.kind \in {"write", "edit"} => a.text # 0,
           a.kind \in {"edit", "delete"} => a.note \in Dialog!Note
    PROVE  DialogInv'
<1>1. Dialogue /\ History /\ MaxAsks \in Nat
  BY DEF DialogInv, DialogConstants
<1>2. PICK n \in 1..MaxAsks : n = queries + 1
  BY <1>1 DEF Dialog!Start, Dialogue
<1>3. PICK q : q = [a EXCEPT !.id = n]
  OBVIOUS
<1>4. queries' = n /\ asks' = asks \cup {q}
  BY <1>2, <1>3 DEF Dialog!Start
<1>5. q \in Question /\ q.id = n /\ q.kind = a.kind /\ q.status = a.status /\ q.text = a.text /\ q.note = a.note /\ q.reply = a.reply
  BY <1>1, <1>3 DEF Question
<1>6. Current(q)
  BY <1>5 DEF Current
<1>7. Asked(q)
  <2>1. q.text \in 0..MaxAsks
    BY <1>5 DEF Question
  <2>2. q.kind \in {"write", "edit"} => q.text \in 1..MaxAsks
    BY <1>1, <1>5, <2>1
  <2>3. q.reply # "ok" /\ q.reply # "conflict"
    BY <1>5 DEF DialogConstants
  <2> QED
    BY <1>5, <2>2, <2>3 DEF Asked
<1>8. Server' /\ \A p \in Posts : past[p] <= past'[p]
  BY <1>1 DEF Dialogue, Server
<1> QED
  BY <1>1, <1>4, <1>5, <1>6, <1>7, <1>8, DeskStays DEF History

\* The backend answers: what it has of a history is not less than what a detail was told of.
LEMMA DialogServeKeeps == ASSUME DialogConstants, DialogInv, NEW a \in asks, Dialog!Serve(a) PROVE DialogInv'
<1>1. Dialogue /\ History /\ a \in Question /\ Asked(a) /\ Current(a) /\ a.reply = None
  BY DEF DialogInv, Dialogue, History, Dialog!Serve
<1>2. Server
  BY <1>1 DEF Dialogue
<1>3. UNCHANGED <<desk, story, notes, queries, confirmed, quiet>>
  BY DEF Dialog!Serve
<1>4. PICK p \in Posts : p = a.post
  BY <1>1 DEF Question
<1>5. ASSUME NEW reply \in {"ok", "conflict"}, NEW got \in Got, Dialog!Answered(a, reply, got),
             Server', \A x \in Posts : past[x] <= past'[x],
             reply = "ok" => /\ a.kind = "events" => got \in Nat /\ got >= confirmed[p]
                             /\ a.kind = "notes" => got \in SUBSET Dialog!Note
                             /\ a.kind = "write" => got = Dialog!Fresh(a),
             reply = "conflict" => a.kind = "create"
      PROVE  DialogInv'
  <2>1. PICK q : q = [a EXCEPT !.reply = reply, !.got = got]
    OBVIOUS
  <2>2. asks' \subseteq asks \cup {q}
    BY <1>5, <2>1 DEF Dialog!Answered
  <2>3. q \in Question /\ q.id = a.id /\ q.kind = a.kind /\ q.post = p /\ q.status = a.status /\ q.text = a.text /\ q.note = a.note
        /\ q.reply = reply /\ q.got = got
    BY <1>1, <1>4, <1>5, <2>1 DEF Question
  <2>4. Dialog!Fresh(q) = Dialog!Fresh(a)
    BY <2>3 DEF Dialog!Fresh
  <2>5. Asked(q)
    BY <1>1, <1>5, <2>3, <2>4 DEF Asked
  <2>6. Current(q)
    BY <1>1, <1>4, <1>5, <2>3 DEF Current
  <2> QED
    BY <1>1, <1>3, <1>5, <2>2, <2>3, <2>5, <2>6, DeskStays DEF Dialogue, History
<1>6. ASSUME UNCHANGED <<kept, past, remarks>> PROVE Server' /\ \A x \in Posts : past[x] <= past'[x]
  BY <1>2, <1>6 DEF Server
<1>7. past[p] \in Nat /\ past[p] >= confirmed[p] /\ past[p] \in Got /\ remarks[p] \in SUBSET Dialog!Note /\ remarks[p] \in Got /\ {} \in Got
  BY <1>1, <1>2 DEF Server, History, Dialogue, Got
<1>8. CASE a.kind = "events" /\ UNCHANGED <<kept, past, remarks>> /\ Dialog!Answered(a, "ok", past[a.post])
  BY <1>4, <1>5, <1>6, <1>7, <1>8
<1>9. CASE a.kind = "notes" /\ UNCHANGED <<kept, past, remarks>> /\ Dialog!Answered(a, "ok", remarks[a.post])
  BY <1>4, <1>5, <1>6, <1>7, <1>9
<1>10. CASE a.kind = "create" /\ UNCHANGED <<kept, past, remarks>> /\ Dialog!Answered(a, "conflict", {})
  BY <1>4, <1>5, <1>6, <1>7, <1>10
<1>11. CASE a.kind \in {"create", "update"} /\ Dialog!Moved(a) /\ Dialog!Answered(a, "ok", {})
  <2>1. PICK s \in Dialog!Status : s = a.status
    BY <1>1, <1>11 DEF Asked
  <2>2. PICK n \in Nat : n = past[p] + (IF kept[p] \in {None, s} THEN 0 ELSE 1) /\ past[p] <= n
    BY <1>7
  <2>3. kept' = [kept EXCEPT ![p] = s] /\ past' = [past EXCEPT ![p] = n] /\ remarks' = remarks
    BY <1>4, <1>11, <2>1, <2>2 DEF Dialog!Moved
  <2>4. Server'
    BY <1>2, <2>3 DEF Server
  <2>5. \A x \in Posts : past[x] <= past'[x]
    BY <1>2, <2>2, <2>3 DEF Server
  <2> QED
    BY <1>5, <1>7, <1>11, <2>4, <2>5
<1>12. ASSUME NEW ns \in SUBSET Dialog!Note, Dialog!Noted(a, ns) PROVE Server' /\ \A x \in Posts : past[x] <= past'[x]
  BY <1>2, <1>4, <1>12 DEF Dialog!Noted, Server
<1>13. CASE a.kind = "write" /\ Dialog!Noted(a, remarks[a.post] \cup {Dialog!Fresh(a)}) /\ Dialog!Answered(a, "ok", Dialog!Fresh(a))
  <2>1. Dialog!Fresh(a) \in Dialog!Note /\ Dialog!Fresh(a) \in Got
    BY <1>1, <1>13 DEF Asked, Dialog!Fresh, Dialog!Note, Got
  <2>2. PICK ns \in SUBSET Dialog!Note : ns = remarks[p] \cup {Dialog!Fresh(a)}
    BY <1>7, <2>1
  <2>3. Server' /\ \A x \in Posts : past[x] <= past'[x]
    BY <1>4, <1>12, <1>13, <2>2
  <2> QED
    BY <1>5, <1>13, <2>1, <2>3
<1>14. CASE \E n \in remarks[a.post] :
             /\ a.kind \in {"edit", "delete"}
             /\ Dialog!Noted(a, (remarks[a.post] \ {n}) \cup (IF a.kind = "edit" THEN {Dialog!Edited(a)} ELSE {}))
             /\ Dialog!Answered(a, "ok", {})
  <2>1. PICK n : /\ a.kind \in {"edit", "delete"}
                 /\ Dialog!Noted(a, (remarks[a.post] \ {n}) \cup (IF a.kind = "edit" THEN {Dialog!Edited(a)} ELSE {}))
                 /\ Dialog!Answered(a, "ok", {})
    BY <1>14
  <2>2. a.kind = "edit" => Dialog!Edited(a) \in Dialog!Note
    BY <1>1 DEF Asked, Dialog!Edited, Dialog!Note
  <2>3. PICK ns \in SUBSET Dialog!Note : ns = (remarks[p] \ {n}) \cup (IF a.kind = "edit" THEN {Dialog!Edited(a)} ELSE {})
    BY <1>7, <2>2
  <2>4. Server' /\ \A x \in Posts : past[x] <= past'[x]
    BY <1>4, <1>12, <2>1, <2>3
  <2> QED
    BY <1>5, <1>7, <2>1, <2>4
<1>15. (UNCHANGED <<kept, past, remarks>>) <=> Dialog!server' = Dialog!server
  BY DEF Dialog!server
<1> QED
  BY <1>8, <1>9, <1>10, <1>11, <1>13, <1>14, <1>15 DEF Dialog!Serve

\* The notes are read, written or refused while the detail stays.
LEMMA NotesKept ==
    ASSUME DialogConstants, DialogInv, notes # None, NEW items \in Seq(Dialog!Note), NEW ns,
           \/ ns = [notes EXCEPT !.list = items]
           \/ ns = [notes EXCEPT !.list = items, !.loading = FALSE]
           \/ ns = [notes EXCEPT !.list = items, !.draft = 0, !.editing = None]
           \/ \E b \in BOOLEAN : ns = [notes EXCEPT !.error = TRUE, !.loading = b]
    PROVE  Section(desk, ns)
<1>1. Section(desk, notes)
  BY DEF DialogInv, History
<1>2. Dialog!Tracked(desk) /\ notes \in Notes /\ notes.of = desk.sel.post /\ 0 \in 0..MaxAsks
  <2>1. notes # None /\ MaxAsks \in Nat
    BY DEF DialogConstants
  <2> QED
    BY ONLY <1>1, <2>1 DEF Section
<1>3. ns \in Notes /\ ns.of = notes.of
  <2>1. ASSUME NEW b \in BOOLEAN, ns = [notes EXCEPT !.error = TRUE, !.loading = b] PROVE ns \in Notes /\ ns.of = notes.of
    <3>1. PICK m : m = [notes EXCEPT !.error = TRUE]
      OBVIOUS
    <3>2. m \in Notes /\ m.of = notes.of
      BY <1>2, <3>1 DEF Notes
    <3>3. ns = [m EXCEPT !.loading = b]
      BY <2>1, <3>1
    <3> QED
      BY ONLY <3>2, <3>3, b \in BOOLEAN DEF Notes
  <2>2. CASE \/ ns = [notes EXCEPT !.list = items]
             \/ ns = [notes EXCEPT !.list = items, !.loading = FALSE]
             \/ ns = [notes EXCEPT !.list = items, !.draft = 0, !.editing = None]
    BY <1>2, <2>2 DEF Notes
  <2> QED
    BY <2>1, <2>2
<1> QED
  BY <1>2, <1>3 DEF Section

LEMMA NotesLoadedKeeps == ASSUME DialogConstants, DialogInv, NEW a \in asks, Dialog!NotesLoaded(a) PROVE DialogInv'
<1>1. Dialogue /\ History /\ a \in Question /\ Asked(a) /\ Current(a) /\ a.kind = "notes" /\ a.reply = "ok"
  BY DEF DialogInv, Dialogue, History, Dialog!NotesLoaded
<1>2. UNCHANGED <<kept, past, remarks, desk, story, queries, confirmed, quiet>> /\ asks' \subseteq asks
  BY DEF Dialog!NotesLoaded, Dialog!server
<1>3. PICK G \in SUBSET Dialog!Note : G = a.got
  BY <1>1 DEF Asked
<1>4. PICK items \in Seq(Dialog!Note) : items = Dialog!InSomeOrder(a.got)
  <2>1. IsFiniteSet(G)
    BY NotesAreFinite, FS_Subset
  <2>2. PICK s : s = InSomeOrder(G)
    OBVIOUS
  <2>3. s \in Seq(G)
    BY <2>1, <2>2, SomeOrderLists DEF IsSomeOrder
  <2>4. s \in Seq(Dialog!Note)
    BY ONLY <1>3, <2>3
  <2> QED
    BY <1>3, <2>2, <2>4, DialogInSomeOrder
<1>5. Dialog!Tracked(desk) /\ Section(desk, notes)
  BY <1>1 DEF Current, History
<1>6. notes' = [notes EXCEPT !.list = items, !.loading = FALSE]
  BY <1>4 DEF Dialog!NotesLoaded
<1>7. Section(desk, notes')
  <2>1. notes \in Notes /\ notes.of = desk.sel.post
    BY <1>5 DEF Section
  <2>2. notes' \in Notes /\ notes'.of = notes.of
    BY <1>6, <2>1 DEF Notes
  <2> QED
    BY <1>5, <2>1, <2>2 DEF Section
<1>8. Server' /\ (\A p \in Posts : past[p] <= past'[p]) /\ queries' \in 0..MaxAsks /\ quiet' \in BOOLEAN
  BY <1>1, <1>2 DEF Dialogue, Server
<1> QED
  BY <1>2, <1>7, <1>8, DeskStays

\* A note that was written, changed or removed.
LEMMA NoteWrittenKeeps == ASSUME DialogConstants, DialogInv, NEW a \in asks, Dialog!NoteWritten(a) PROVE DialogInv'
<1>1. Dialogue /\ History /\ a \in Question /\ Asked(a) /\ a.kind \in Dialog!Writing /\ a.reply = "ok"
  BY DEF DialogInv, Dialogue, History, Dialog!NoteWritten
<1>2. UNCHANGED <<kept, past, remarks, desk, story, queries, confirmed, quiet>> /\ asks' \subseteq asks
  BY DEF Dialog!NoteWritten, Dialog!server
<1>3. Section(desk, notes')
  <2>1. CASE notes = None
    <3>1. notes' = notes
      BY <2>1 DEF Dialog!NoteWritten
    <3> QED
      BY <1>1, <3>1 DEF History
  <2>2. CASE notes # None
    <3>1. notes.list \in Seq(Dialog!Note)
      BY <1>1, <2>2 DEF History, Section, Notes
    <3>2. PICK l \in Seq(Dialog!Note) : l = notes.list
      BY ONLY <3>1
    <3>3. CASE a.kind = "write"
      <4>1. PICK n \in Dialog!Note : n = a.got
        BY <1>1, <3>3 DEF Asked, Dialog!Fresh, Dialog!Note
      <4>4. Append(l, n) \in Seq(Dialog!Note)
        OBVIOUS
      <4>2. PICK items \in Seq(Dialog!Note) : items = Append(l, n)
        BY <4>4
      <4>3. notes' = [notes EXCEPT !.list = items, !.draft = 0, !.editing = None]
        BY <2>2, <3>2, <3>3, <4>1, <4>2 DEF Dialog!NoteWritten
      <4> QED
        BY <2>2, <4>3, NotesKept
    <3>4. CASE a.kind = "edit"
      <4>1. PICK n \in Dialog!Note : n = Dialog!Edited(a)
        BY <1>1, <3>4 DEF Asked, Dialog!Edited, Dialog!Note
      <4>2. PICK items \in Seq(Dialog!Note) : items = [i \in DOMAIN l |-> IF l[i].id = a.note.id THEN n ELSE l[i]]
        <5>1. PICK m \in Nat : DOMAIN l = 1..m /\ \A i \in 1..m : l[i] \in Dialog!Note
          BY ONLY l \in Seq(Dialog!Note)
        <5>2. PICK f \in [1..m -> Dialog!Note] : f = [i \in DOMAIN l |-> IF l[i].id = a.note.id THEN n ELSE l[i]]
          BY ONLY <5>1, n \in Dialog!Note
        <5>3. f \in Seq(Dialog!Note)
          BY ONLY m \in Nat, f \in [1..m -> Dialog!Note]
        <5> QED
          BY <5>2, <5>3
      <4>3. notes' = [notes EXCEPT !.list = items, !.draft = 0, !.editing = None]
        BY <2>2, <3>2, <3>4, <4>1, <4>2 DEF Dialog!NoteWritten
      <4> QED
        BY <2>2, <4>3, NotesKept
    <3>5. CASE a.kind = "delete"
      <4>1. PICK others : others = {n \in Dialog!Entries(l) : n.id # a.note.id}
        OBVIOUS
      <4>2. PICK items : items = Only(l, others)
        OBVIOUS
      <4>3. Keeps(Dialog!Note, l, others, items)
        BY <4>2, OnlyKeeps
      <4>6. items \in Seq(Dialog!Note)
        BY <4>3 DEF Keeps
      <4>4. items = Dialog!Only(l, others)
        BY <4>2, DialogOnly
      <4>5. notes' = [notes EXCEPT !.list = items]
        BY <2>2, <3>2, <3>5, <4>1, <4>4 DEF Dialog!NoteWritten
      <4> QED
        BY <2>2, <4>6, <4>5, NotesKept
    <3> QED
      BY <1>1, <3>3, <3>4, <3>5 DEF Dialog!Writing
  <2> QED
    BY <2>1, <2>2
<1>4. Server' /\ (\A p \in Posts : past[p] <= past'[p]) /\ queries' \in 0..MaxAsks /\ quiet' \in BOOLEAN
  BY <1>1, <1>2 DEF Dialogue, Server
<1> QED
  BY <1>2, <1>3, <1>4, DeskStays

LEMMA DialogFailedKeeps == ASSUME DialogConstants, DialogInv, NEW a \in asks, Dialog!Failed(a) PROVE DialogInv'
<1>1. Dialogue /\ History
  BY DEF DialogInv
<1>2. UNCHANGED <<kept, past, remarks, desk, queries, confirmed, quiet>> /\ asks' \subseteq asks
  BY DEF Dialog!Failed, Dialog!server
<1>3. Section(desk, notes')
  <2>1. CASE notes' = notes
    BY SMTT(40), <1>1, <2>1 DEF History
  <2>2. CASE notes' # notes
    <3>1. notes # None /\ notes' = [notes EXCEPT !.error = TRUE, !.loading = notes.loading /\ a.kind # "notes"]
      BY <2>2 DEF Dialog!Failed
    <3>2. notes \in Notes
      BY <1>1, <3>1 DEF History, Section
    <3>3. PICK items \in Seq(Dialog!Note) : items = notes.list
      BY <3>2 DEF Notes
    <3>4. PICK b \in BOOLEAN : b = (notes.loading /\ a.kind # "notes")
      BY Zenon
    <3> QED
      BY <3>1, <3>3, <3>4, NotesKept
  <2> QED
    BY <2>1, <2>2
<1>4. Server' /\ (\A p \in Posts : past[p] <= past'[p]) /\ queries' \in 0..MaxAsks /\ quiet' \in BOOLEAN
  BY <1>1, <1>2 DEF Dialogue, Server
<1>5. story' = story \/ (story' \in Story /\ CurrentStory(desk, story', confirmed))
  <2>1. CASE a.kind = "events"
    <3>1. story' = [story EXCEPT !.state = "failed"] /\ story \in Story
      BY <1>1, <2>1 DEF Dialog!Failed, Dialogue
    <3>2. story' \in Story /\ story'.state = "failed"
      BY <3>1 DEF Story
    <3> QED
      BY <3>2 DEF CurrentStory
  <2> QED
    BY <2>1 DEF Dialog!Failed
<1> QED
  BY <1>2, <1>3, <1>4, <1>5, DeskStays

LEMMA TimelineLoadedKeeps == ASSUME DialogConstants, DialogInv, NEW a \in asks, Dialog!TimelineLoaded(a) PROVE DialogInv'
<1>1. Dialogue /\ History /\ a \in Question /\ Asked(a) /\ Current(a) /\ a.kind = "events" /\ a.reply = "ok"
  BY DEF DialogInv, Dialogue, History, Dialog!TimelineLoaded
<1>2. UNCHANGED <<kept, past, remarks, desk, notes, queries, confirmed, quiet>> /\ asks' \subseteq asks
  BY DEF Dialog!TimelineLoaded, Dialog!server
<1>3. story' = [of |-> a.post, state |-> "shown", count |-> a.got] /\ a.post \in Posts /\ a.got \in Nat
  BY <1>1 DEF Dialog!TimelineLoaded, Asked, Question
<1>4. story' \in Story /\ CurrentStory(desk, story', confirmed)
  BY <1>1, <1>3 DEF Story, CurrentStory, Current
<1>5. Server' /\ (\A p \in Posts : past[p] <= past'[p]) /\ queries' \in 0..MaxAsks /\ quiet' \in BOOLEAN
  BY <1>1, <1>2 DEF Dialogue, Server
<1> QED
  BY <1>1, <1>2, <1>4, <1>5, DeskStays DEF History

LEMMA SavedBeforeKeeps == ASSUME DialogConstants, DialogInv, NEW a \in asks, Dialog!SavedBefore(a) PROVE DialogInv'
<1>1. Dialogue /\ History /\ a \in Question /\ Asked(a) /\ Current(a) /\ a.reply = "conflict"
  BY DEF DialogInv, Dialogue, History, Dialog!SavedBefore
<1>2. UNCHANGED <<kept, past, remarks, desk, story, notes, queries, confirmed, quiet>>
  BY DEF Dialog!SavedBefore, Dialog!server
<1>3. Server' /\ (\A p \in Posts : past[p] <= past'[p]) /\ queries' \in 0..MaxAsks /\ quiet' \in BOOLEAN
  BY <1>1, <1>2 DEF Dialogue, Server
<1>4. ASSUME NEW q, q \in asks' PROVE q \in asks \/ (q \in Question /\ Asked(q) /\ Current(q))
  <2>1. a.kind = "create" /\ a.status \in Dialog!Status
    BY <1>1 DEF Asked, DialogConstants
  <2>2. CASE q = [a EXCEPT !.reply = "ok"]
    <3>1. q \in Question /\ q.kind = "create" /\ q.status = a.status /\ q.reply = "ok"
      BY <1>1, <2>1, <2>2 DEF Question
    <3> QED
      BY <2>1, <3>1 DEF Asked, Current
  <2>3. CASE q = [a EXCEPT !.kind = "update", !.reply = None]
    <3>1. q \in Question /\ q.kind = "update" /\ q.status = a.status /\ q.reply = None
      BY <1>1, <2>1, <2>3 DEF Question
    <3> QED
      BY <2>1, <3>1 DEF Asked, Current, DialogConstants
  <2> QED
    BY <1>4, <2>2, <2>3 DEF Dialog!SavedBefore
<1> QED
  BY <1>1, <1>2, <1>3, <1>4, DeskStays DEF History

\* A change of status is answered: the detail that was open is told, and reads again.
LEMMA StatusChangedKeeps == ASSUME DialogConstants, DialogInv, NEW a \in asks, Dialog!StatusChanged(a) PROVE DialogInv'
<1>1. Dialogue /\ History /\ a \in Question /\ Asked(a) /\ a.kind \in {"create", "update"}
  BY DEF DialogInv, Dialogue, Dialog!StatusChanged
<1>2. UNCHANGED <<kept, past, remarks, queries>>
  BY DEF Dialog!StatusChanged, Dialog!server
<1>3. PICK p \in Posts : p = a.post
  BY <1>1 DEF Question
<1>4. PICK s \in Dialog!Status : s = a.status
  BY <1>1 DEF Asked
<1>5. PICK rest \in SUBSET asks : rest = asks \ {a}
  OBVIOUS
<1>6. PICK d : d = [desk EXCEPT !.listed[p] = s, !.offered = @ \ {p}]
  OBVIOUS
<1>7. d \in Desk /\ d.ver = desk.ver
  <2>1. PICK listed2 \in [Posts -> Dialog!Status \cup {None}] : listed2 = [desk.listed EXCEPT ![p] = s]
    BY <1>1, <1>4 DEF Dialogue, Desk
  <2>2. PICK offered2 \in SUBSET Posts : offered2 = desk.offered \ {p}
    BY <1>1 DEF Dialogue, Desk
  <2>3. d = [desk EXCEPT !.listed = listed2, !.offered = offered2]
    BY <1>6, <2>1, <2>2
  <2>4. desk \in Desk
    BY <1>1 DEF Dialogue
  <2> QED
    BY ONLY <2>3, <2>4 DEF Desk
<1>8. past \in [Posts -> Nat] /\ confirmed \in [Posts -> Nat] /\ \A x \in Posts : confirmed[x] <= past[x]
  BY <1>1 DEF Dialogue, Server, History
<1>9. CASE a.told
  <2>1. PICK sel2 \in Dialog!Sel : sel2 = [post |-> p, kept |-> TRUE]
    BY DEF Dialog!Sel
  <2>2. PICK n \in Nat : n = d.ver + 1 /\ n # desk.ver
    BY <1>7 DEF Desk
  <2>3. PICK e : e = [d EXCEPT !.sel = sel2, !.ver = n]
    OBVIOUS
  <2>4. e \in Desk /\ e.ver = n
    BY ONLY <1>7, <2>3 DEF Desk
  <2>5. Dialog!Render(e, rest) /\ confirmed' = [confirmed EXCEPT ![p] = past[p]]
    BY <1>3, <1>4, <1>5, <1>6, <1>9, <2>1, <2>2, <2>3 DEF Dialog!StatusChanged
  <2>6. confirmed' \in [Posts -> Nat] /\ \A x \in Posts : confirmed'[x] <= past[x]
    BY <1>8, <2>5
  <2> QED
    BY <1>2, <2>2, <2>4, <2>5, <2>6, RenderKeeps
<1>10. CASE ~a.told
  <2>1. Dialog!Render(d, rest) /\ confirmed' = confirmed
    BY <1>3, <1>4, <1>5, <1>6, <1>10 DEF Dialog!StatusChanged
  <2> QED
    BY <1>2, <1>7, <1>8, <2>1, RenderKeeps
<1> QED
  BY <1>1, <1>9, <1>10 DEF Question

LEMMA DialogStep == ASSUME DialogConstants, DialogInv, Dialog!JNext \/ UNCHANGED dialog PROVE DialogInv'
<1>1. Dialogue /\ History /\ MaxAsks \in Nat /\ desk \in Desk /\ past \in [Posts -> Nat] /\ confirmed \in [Posts -> Nat]
      /\ \A x \in Posts : confirmed[x] <= past[x]
  BY DEF DialogInv, Dialogue, Server, History, DialogConstants
<1>2. PICK all \in SUBSET asks : all = asks
  OBVIOUS
<1>3. CASE UNCHANGED dialog
  <2>1. UNCHANGED <<kept, past, remarks, desk, story, notes, asks, queries, confirmed, quiet>>
    BY <1>3 DEF dialog
  <2> QED
    BY <2>1 DEF DialogInv, Dialogue, Server, History, Current
<1>4. CASE Dialog!CloseJob
  <2>1. PICK d : d = [desk EXCEPT !.sel = None]
    OBVIOUS
  <2>2. Dialog!Render(d, all) /\ UNCHANGED <<kept, past, remarks, queries, confirmed>>
    BY <1>2, <1>4, <2>1 DEF Dialog!CloseJob, Dialog!server
  <2>3. d \in Desk
    BY <1>1, <2>1 DEF Desk
  <2> QED
    BY <1>1, <2>2, <2>3, RenderKeeps
<1>5. ASSUME NEW s \in Dialog!Sel, Dialog!OpenJob(s) PROVE DialogInv'
  <2>1. PICK d : d = [desk EXCEPT !.sel = s, !.opens = @ + 1]
    OBVIOUS
  <2>2. Dialog!Render(d, all) /\ UNCHANGED <<kept, past, remarks, queries, confirmed>> /\ desk.opens < MaxOpens
    BY <1>2, <1>5, <2>1 DEF Dialog!OpenJob, Dialog!server
  <2>3. d \in Desk
    <3>1. desk.opens + 1 \in 0..MaxOpens
      BY <1>1, <2>2 DEF Desk, DialogConstants
    <3> QED
      BY <1>1, <2>1, <3>1 DEF Desk
  <2> QED
    BY <1>1, <2>2, <2>3, RenderKeeps
<1>6. ASSUME NEW k \in {"events", "notes", "create", "update"} \cup Dialog!Writing, NEW p \in Posts
      PROVE  Dialog!Ask(k, p) \in Question /\ Dialog!Ask(k, p).kind = k /\ Dialog!Ask(k, p).reply = None
  <2>1. 0 \in 0..MaxAsks /\ {} \in Got
    BY DEF DialogConstants, Got
  <2> QED
    BY <2>1 DEF Dialog!Ask, Question
<1>7. ASSUME NEW p \in Posts, NEW s \in Dialog!Status, Dialog!ChangeStatus(p, s) PROVE DialogInv'
  <2>1. PICK k \in {"events", "notes", "create", "update"} \cup Dialog!Writing : k = IF p \in Dialog!Kept(desk) THEN "update" ELSE "create"
    OBVIOUS
  <2>2. PICK b \in BOOLEAN : b = (desk.sel = [post |-> p, kept |-> p \in Dialog!Kept(desk)])
    BY Zenon
  <2>3. PICK q : q = Dialog!Ask(k, p)
    OBVIOUS
  <2>4. PICK a : a = [q EXCEPT !.status = s, !.told = b]
    OBVIOUS
  <2>5. q \in Question /\ q.kind = k /\ q.reply = None
    BY <1>6, <2>3
  <2>6. a \in Question /\ a.kind = k /\ a.status = s /\ a.reply = None
    BY ONLY <2>4, <2>5 DEF Question
  <2>7. Dialog!Start(a) /\ UNCHANGED <<kept, past, remarks, desk, story, notes, confirmed, quiet>>
    BY <1>7, <2>1, <2>2, <2>3, <2>4 DEF Dialog!ChangeStatus, Dialog!server
  <2>8. quiet' \in BOOLEAN
    BY <1>1, <2>7 DEF Dialogue
  <2> QED
    BY <2>1, <2>6, <2>7, <2>8, StartKeepsDialog
<1>8. notes # None => notes \in Notes /\ Dialog!Tracked(desk) /\ notes.of = desk.sel.post
  BY <1>1 DEF History, Section
<1>9. ASSUME NEW ns \in Notes, notes # None, notes' = ns, ns.of = notes.of,
             UNCHANGED <<kept, past, remarks, desk, story, asks, queries, confirmed, quiet>>
      PROVE  DialogInv'
  <2>1. Section(desk, notes')
    BY <1>8, <1>9 DEF Section
  <2>2. Server' /\ (\A p \in Posts : past[p] <= past'[p]) /\ queries' \in 0..MaxAsks /\ quiet' \in BOOLEAN
    BY <1>1, <1>9 DEF Dialogue, Server
  <2> QED
    BY <1>9, <2>1, <2>2, DeskStays
<1>10. CASE Dialog!Type
  <2>1. notes # None /\ queries < MaxAsks /\ queries \in Nat /\ UNCHANGED <<kept, past, remarks, desk, story, asks, queries, confirmed, quiet>>
        /\ notes' = [notes EXCEPT !.draft = queries + 1]
    BY <1>1, <1>10 DEF Dialog!Type, Dialog!server, Dialogue
  <2>2. PICK n \in 0..MaxAsks : n = queries + 1
    BY <1>1, <2>1
  <2>3. notes' \in Notes /\ notes'.of = notes.of
    BY <1>8, <2>1, <2>2 DEF Notes
  <2> QED
    BY <1>9, <2>1, <2>3
<1>11. ASSUME NEW n \in Dialog!Note, Dialog!Edit(n) PROVE DialogInv'
  <2>1. notes # None /\ UNCHANGED <<kept, past, remarks, desk, story, asks, queries, confirmed, quiet>>
        /\ notes' = [notes EXCEPT !.editing = n, !.draft = n.text]
    BY <1>1, <1>11 DEF Dialog!Edit, Dialog!server, Dialogue
  <2>2. PICK t \in 0..MaxAsks : t = n.text
    BY <1>1 DEF Dialog!Note
  <2>3. notes' \in Notes /\ notes'.of = notes.of
    BY <1>8, <2>1, <2>2 DEF Notes
  <2> QED
    BY <1>9, <2>1, <2>3
<1>12. Dialog!Alone => quiet' \in BOOLEAN
  <2>1. Dialog!Alone => (quiet' <=> (quiet /\ Dialog!Loads(Dialog!Writing \cup {"notes"}) = {})) /\ quiet' \in BOOLEAN
    BY Zenon DEF Dialog!Alone
  <2> QED
    BY <2>1
<1>13. CASE Dialog!Save
  <2>1. notes # None /\ notes \in Notes /\ notes.draft # 0
    BY <1>8, <1>13 DEF Dialog!Save
  <2>2. PICK k \in {"events", "notes", "create", "update"} \cup Dialog!Writing : k = IF notes.editing = None THEN "write" ELSE "edit"
    BY DEF Dialog!Writing
  <2>3. PICK p \in Posts : p = notes.of
    BY <2>1 DEF Notes
  <2>4. PICK t \in 0..MaxAsks : t = notes.draft
    BY <2>1 DEF Notes
  <2>5. PICK e \in Dialog!Note \cup {None} : e = notes.editing
    BY <2>1 DEF Notes
  <2>6. PICK q : q = Dialog!Ask(k, p)
    OBVIOUS
  <2>7. PICK a : a = [q EXCEPT !.text = t, !.note = e]
    OBVIOUS
  <2>8. q \in Question /\ q.kind = k /\ q.reply = None
    BY <1>6, <2>6
  <2>9. a \in Question /\ a.kind = k /\ a.text = t /\ a.note = e /\ a.reply = None
    BY ONLY <2>7, <2>8 DEF Question
  <2>10. Dialog!Start(a) /\ Dialog!Alone /\ UNCHANGED <<kept, past, remarks, desk, story, notes, confirmed>>
    BY <1>13, <2>2, <2>3, <2>4, <2>5, <2>6, <2>7 DEF Dialog!Save, Dialog!server
  <2> QED
    BY <1>12, <2>1, <2>2, <2>4, <2>5, <2>9, <2>10, StartKeepsDialog
<1>14. ASSUME NEW n \in Dialog!Note, Dialog!RemoveNote(n) PROVE DialogInv'
  <2>1. notes # None /\ notes \in Notes
    BY <1>8, <1>14 DEF Dialog!RemoveNote
  <2>2. PICK k \in {"events", "notes", "create", "update"} \cup Dialog!Writing : k = "delete"
    BY DEF Dialog!Writing
  <2>3. PICK p \in Posts : p = notes.of
    BY <2>1 DEF Notes
  <2>6. PICK q : q = Dialog!Ask(k, p)
    OBVIOUS
  <2>7. PICK a : a = [q EXCEPT !.note = n]
    OBVIOUS
  <2>8. q \in Question /\ q.kind = k /\ q.reply = None
    BY <1>6, <2>6
  <2>9. a \in Question /\ a.kind = k /\ a.note = n /\ a.reply = None
    BY ONLY <2>7, <2>8 DEF Question
  <2>10. Dialog!Start(a) /\ Dialog!Alone /\ UNCHANGED <<kept, past, remarks, desk, story, notes, confirmed>>
    BY <1>14, <2>2, <2>3, <2>6, <2>7 DEF Dialog!RemoveNote, Dialog!server
  <2> QED
    BY <1>12, <2>1, <2>2, <2>9, <2>10, StartKeepsDialog
<1> QED
  BY <1>3, <1>4, <1>5, <1>7, <1>10, <1>11, <1>13, <1>14, DialogServeKeeps, StatusChangedKeeps, SavedBeforeKeeps, TimelineLoadedKeeps,
     NotesLoadedKeeps, NoteWrittenKeeps, DialogFailedKeeps DEF Dialog!JNext

LEMMA DialogStart == ASSUME DialogConstants, Dialog!JInit PROVE DialogInv
<1>1. PICK known \in SUBSET Posts : desk = [sel |-> None, ver |-> 0, listed |-> [p \in Posts |-> IF p \in known THEN "saved" ELSE None],
                                            offered |-> Posts \ known, opens |-> 0]
  BY DEF Dialog!JInit
<1>2. 0 \in 0..MaxAsks /\ 0 \in 0..MaxOpens /\ "saved" \in Dialog!Status
  BY DEF DialogConstants, Dialog!Status
<1>3. desk \in Desk /\ desk.sel = None
  BY <1>1, <1>2 DEF Desk
<1>4. ~Dialog!Tracked(desk)
  BY <1>3 DEF Dialog!Tracked, Dialog!Viewing
<1>5. Server
  BY <1>2 DEF Dialog!JInit, Server
<1>6. story \in Story /\ notes = None /\ asks = {} /\ queries \in 0..MaxAsks /\ quiet \in BOOLEAN /\ confirmed = past
  BY <1>2 DEF Dialog!JInit, Story
<1>7. Dialogue
  BY <1>3, <1>5, <1>6 DEF Dialogue, Server
<1>8. History
  <2>1. past \in [Posts -> Nat]
    BY <1>5 DEF Server
  <2> QED
    BY <1>4, <1>6, <2>1 DEF History, CurrentStory, Section
<1> QED
  BY <1>7, <1>8 DEF DialogInv

LEMMA DialogIsCurrent == ASSUME DialogConstants, DialogInv PROVE Dialog!JTypeOK /\ Dialog!HistoryIsCurrent
<1>1. Dialogue /\ History
  BY DEF DialogInv
<1>2. notes # None => Dialog!Entries(notes.list) \subseteq Dialog!Note /\ notes.of \in Posts
  <2>1. ASSUME notes # None PROVE notes.of \in Posts /\ notes.list \in Seq(Dialog!Note)
    BY <1>1, <2>1 DEF History, Section, Notes
  <2> QED
    BY <2>1 DEF Dialog!Entries
<1>3. Dialog!JTypeOK
  BY <1>1, <1>2 DEF Dialog!JTypeOK, Dialogue, Server, Desk, Story
<1>4. Dialog!HistoryIsCurrent
  BY <1>1 DEF Dialog!HistoryIsCurrent, History, CurrentStory
<1> QED
  BY <1>3, <1>4

-----------------------------------------------------------------------------
(* MetricPanels *)

MetricConstants ==
    /\ DefaultRange \in Ranges /\ MaxAsks \in Nat
    /\ Samples \subseteq Seq([label : STRING, values : Seq([at : Nat, value : Nat \cup {NaN}])])

Boards == UNION {Metrics!Dashboards(r) : r \in Ranges}
Page == [session : {1, 2}, range : Ranges, resource : 1..(MaxAsks + 1), series : Boards \cup {None},
         stale : BOOLEAN, forbidden : BOOLEAN, refused : BOOLEAN]
PollSet == [n : 1..MaxAsks, session : {1, 2}, resource : Nat, range : Ranges, aborted : BOOLEAN]
Card == [picked : ((STRING \X Nat) \cup {None}), all : BOOLEAN]

\* The one request that is not given up asks for what the page shows, of a page that may ask.
OfPage(g, p) == ~p.aborted => p.session = g.session /\ p.resource = g.resource /\ p.range = g.range /\ ~g.forbidden
Alone(ps) == \A p, q \in ps : p.aborted \/ q.aborted \/ p = q
MetricInv ==
    /\ graphs \in Page /\ card \in Card /\ polls \subseteq PollSet /\ polled \in 0..MaxAsks
    /\ graphs.series = None \/ graphs.series \in Metrics!Dashboards(graphs.range)
    /\ graphs.forbidden => graphs.series = None
    /\ \A p \in polls : OfPage(graphs, p)
    /\ Alone(polls)

LEMMA BoardIsOfRange == ASSUME NEW r \in Ranges, NEW d \in Metrics!Dashboards(r) PROVE d.range = r /\ d \in Boards
BY DEF Metrics!Dashboards, Boards

LEMMA LinesAreListed ==
    ASSUME MetricConstants, NEW r \in Ranges, NEW d \in Metrics!Dashboards(r), NEW i \in DOMAIN d.lines
    PROVE  i \in Nat /\ d.lines[i].label \in STRING
<1>1. PICK sample \in Samples : d.lines \in Metrics!QueryRange(sample)
  <2>1. PICK p : d.lines = p.lines /\ p \in UNION {Metrics!Panels(sample, raw) : sample \in Samples, raw \in {1, NaN, None}}
    BY DEF Metrics!Dashboards
  <2>2. PICK sample \in Samples : \E raw \in {1, NaN, None} : p \in Metrics!Panels(sample, raw)
    BY <2>1
  <2> QED
    BY <2>1, <2>2 DEF Metrics!Panels
<1>2. d.lines = Metrics!ToSeries(sample)
  <2>1. CASE d.lines = << >>
    <3>1. DOMAIN d.lines = {}
      BY ONLY <2>1
    <3> QED
      BY <3>1
  <2> QED
    BY <1>1, <2>1 DEF Metrics!QueryRange
<1>3. PICK L : sample \in Seq(L) /\ \A e \in L : e.label \in STRING
  <2>1. PICK V : Samples \subseteq Seq([label : STRING, values : V])
    BY DEF MetricConstants
  <2>2. PICK L : L = [label : STRING, values : V]
    OBVIOUS
  <2>3. \A e \in L : e.label \in STRING
    BY <2>2
  <2> QED
    BY <2>1, <2>2, <2>3
<1>4. PICK m \in Nat : DOMAIN sample = 1..m /\ \A k \in 1..m : sample[k] \in L
  BY ONLY <1>3
<1>5. i \in DOMAIN sample /\ d.lines[i].label = sample[i].label
  BY <1>2 DEF Metrics!ToSeries
<1> QED
  BY <1>3, <1>4, <1>5

LEMMA MetricsStart == ASSUME MetricConstants, Metrics!MInit PROVE MetricInv
<1>1. graphs = [session |-> 1, range |-> DefaultRange, resource |-> 1, series |-> None, stale |-> FALSE, forbidden |-> FALSE,
               refused |-> FALSE] /\ card = [picked |-> None, all |-> FALSE] /\ polls = {} /\ polled = 0
  BY DEF Metrics!MInit, Metrics!FreshPanel, Metrics!NoCard
<1>2. graphs \in Page /\ card \in Card /\ polled \in 0..MaxAsks
  BY <1>1 DEF MetricConstants, Page, Card
<1> QED
  BY <1>1, <1>2 DEF MetricInv, Alone

\* All requests are given up.
LEMMA AllAborted ==
    ASSUME polls \subseteq PollSet, NEW ps, ps = {[p EXCEPT !.aborted = TRUE] : p \in polls}
    PROVE  ps \subseteq PollSet /\ \A p \in ps : p.aborted
BY DEF PollSet

LEMMA MetricsStep == ASSUME MetricConstants, MetricInv, Metrics!MNext \/ UNCHANGED metrics PROVE MetricInv'
<1>1. /\ graphs \in Page /\ card \in Card /\ polls \subseteq PollSet /\ polled \in 0..MaxAsks
      /\ graphs.series = None \/ graphs.series \in Metrics!Dashboards(graphs.range)
      /\ graphs.forbidden => graphs.series = None
      /\ \A p \in polls : OfPage(graphs, p)
      /\ Alone(polls)
  BY DEF MetricInv
<1>2. MaxAsks \in Nat /\ DefaultRange \in Ranges
  BY DEF MetricConstants
<1>3. CASE Metrics!NextSession
  <2>1. /\ graphs' = [session |-> 2, range |-> DefaultRange, resource |-> 1, series |-> None, stale |-> FALSE,
                     forbidden |-> FALSE, refused |-> FALSE]
        /\ card' = [picked |-> None, all |-> FALSE] /\ polled' = polled
        /\ polls' = {[p EXCEPT !.aborted = TRUE] : p \in polls}
    BY <1>3 DEF Metrics!NextSession, Metrics!FreshPanel, Metrics!NoCard
  <2>2. polls' \subseteq PollSet /\ \A p \in polls' : p.aborted
    BY <1>1, <2>1, AllAborted
  <2>3. graphs' \in Page /\ card' \in Card
    BY <1>2, <2>1 DEF Page, Card
  <2> QED
    BY <1>1, <2>1, <2>2, <2>3 DEF MetricInv, OfPage, Alone
<1>4. ASSUME NEW r \in Ranges, Metrics!ChooseRange(r) PROVE MetricInv'
  <2>1. /\ graphs' = [graphs EXCEPT !.range = r, !.resource = @ + 1, !.series = None, !.stale = FALSE, !.forbidden = FALSE]
        /\ graphs.resource <= MaxAsks /\ card' = card /\ polled' = polled
        /\ polls' = {[p EXCEPT !.aborted = TRUE] : p \in polls}
    BY <1>4 DEF Metrics!ChooseRange
  <2>2. polls' \subseteq PollSet /\ \A p \in polls' : p.aborted
    BY <1>1, <2>1, AllAborted
  <2>3. graphs' \in Page /\ graphs'.series = None
    <3>1. PICK n \in 1..(MaxAsks + 1) : n = graphs.resource + 1
      BY <1>1, <1>2, <2>1 DEF Page
    <3>2. graphs' = [graphs EXCEPT !.range = r, !.resource = n, !.series = None, !.stale = FALSE, !.forbidden = FALSE]
      BY <2>1, <3>1
    <3> QED
      BY <1>1, <3>2 DEF Page
  <2> QED
    BY <1>1, <2>1, <2>2, <2>3 DEF MetricInv, OfPage, Alone
<1>5. CASE Metrics!Poll
  <2>1. ~graphs.forbidden /\ (\A p \in polls : p.aborted) /\ card' = card
    BY <1>5 DEF Metrics!Poll
  <2>2. CASE graphs.refused
    <3>1. graphs' = [graphs EXCEPT !.stale = TRUE, !.forbidden = TRUE, !.series = None] /\ polls' = polls /\ polled' = polled
      BY <1>5, <2>2 DEF Metrics!Poll, Metrics!Refused
    <3>2. graphs' \in Page /\ graphs'.series = None
      BY <1>1, <3>1 DEF Page
    <3> QED
      BY <1>1, <2>1, <3>1, <3>2 DEF MetricInv, OfPage, Alone
  <2>3. CASE ~graphs.refused
    <3>1. PICK q : q = [n |-> polled + 1, session |-> graphs.session, resource |-> graphs.resource, range |-> graphs.range,
                        aborted |-> FALSE]
      OBVIOUS
    <3>2. polled < MaxAsks /\ polled' = polled + 1 /\ polls' = polls \cup {q} /\ graphs' = graphs
      BY <1>5, <2>3, <3>1 DEF Metrics!Poll, Metrics!Refused
    <3>3. q \in PollSet /\ OfPage(graphs, q)
      <4>1. graphs.session \in {1, 2} /\ graphs.resource \in Nat /\ graphs.range \in Ranges /\ polled + 1 \in 1..MaxAsks
        BY <1>1, <1>2, <3>2 DEF Page
      <4> QED
        BY <2>1, <3>1, <4>1 DEF PollSet, OfPage
    <3>4. polled' \in 0..MaxAsks
      BY <1>1, <1>2, <3>2
    <3>5. Alone(polls')
      BY <2>1, <3>2 DEF Alone
    <3>6. polls' \subseteq PollSet /\ \A p \in polls' : OfPage(graphs', p)
      BY <1>1, <3>2, <3>3
    <3> QED
      BY <1>1, <2>1, <3>2, <3>4, <3>5, <3>6 DEF MetricInv
  <2> QED
    BY <2>2, <2>3
<1>6. ASSUME NEW p \in polls, Metrics!Answer(p) \/ Metrics!Refuse(p) PROVE MetricInv'
  <2>1. polls' = polls \ {p} /\ card' = card /\ polled' = polled
    BY <1>6 DEF Metrics!Answer, Metrics!Refuse
  <2>2. polls' \subseteq PollSet /\ Alone(polls')
    BY <1>1, <2>1 DEF Alone
  <2>3. p \in PollSet /\ OfPage(graphs, p)
    BY <1>1
  <2>4. Metrics!Concerns(p) => ~p.aborted /\ p.range = graphs.range /\ ~graphs.forbidden
    BY <2>3 DEF Metrics!Concerns, OfPage
  <2>5. CASE \E d \in Metrics!Dashboards(p.range) : Metrics!Concerns(p) /\ graphs' = [graphs EXCEPT !.series = d, !.stale = FALSE]
    <3>1. PICK d \in Metrics!Dashboards(p.range) : graphs' = [graphs EXCEPT !.series = d, !.stale = FALSE]
      BY <2>5
    <3>2. p.range \in Ranges /\ p.range = graphs.range /\ ~graphs.forbidden
      BY <1>1, <2>4, <2>5 DEF Page
    <3>3. d \in Boards
      BY <3>2, BoardIsOfRange
    <3>4. graphs' \in Page /\ graphs'.series = d /\ graphs'.range = graphs.range
      BY <1>1, <3>1, <3>3 DEF Page
    <3>5. \A q \in polls' : OfPage(graphs', q)
      BY <1>1, <2>1, <3>1 DEF OfPage, Page
    <3>6. ~graphs'.forbidden
      BY <1>1, <3>1, <3>2 DEF Page
    <3> QED
      BY <1>1, <2>1, <2>2, <3>2, <3>4, <3>5, <3>6 DEF MetricInv
  <2>6. CASE \/ graphs' = graphs
             \/ graphs' = [graphs EXCEPT !.stale = TRUE]
             \/ graphs' = [graphs EXCEPT !.refused = TRUE]
    <3>1. graphs' \in Page /\ graphs'.series = graphs.series /\ graphs'.range = graphs.range /\ (graphs'.forbidden <=> graphs.forbidden)
          /\ graphs'.session = graphs.session /\ graphs'.resource = graphs.resource
      BY <1>1, <2>6 DEF Page
    <3> QED
      BY <1>1, <2>1, <2>2, <3>1 DEF MetricInv, OfPage
  <2>7. CASE Metrics!Concerns(p) /\ graphs' = [graphs EXCEPT !.refused = TRUE, !.forbidden = TRUE, !.stale = TRUE, !.series = None]
    <3>1. graphs' \in Page /\ graphs'.series = None
      BY <1>1, <2>7 DEF Page
    <3>2. \A q \in polls' : q.aborted
      BY <1>1, <2>1, <2>4, <2>7 DEF Alone
    <3> QED
      BY <1>1, <2>1, <2>2, <3>1, <3>2 DEF MetricInv, OfPage
  <2> QED
    BY <1>6, <2>5, <2>6, <2>7 DEF Metrics!Answer, Metrics!Refuse
<1>7. ASSUME NEW p \in polls, Metrics!Deadline(p) PROVE MetricInv'
  <2>1. PICK q : q = [p EXCEPT !.aborted = TRUE]
    OBVIOUS
  <2>2. polls' = (polls \ {p}) \cup {q} /\ graphs' = [graphs EXCEPT !.stale = TRUE] /\ card' = card /\ polled' = polled
    BY <1>7, <2>1 DEF Metrics!Deadline
  <2>3. q \in PollSet /\ q.aborted
    BY <1>1, <2>1 DEF PollSet
  <2>4. polls' \subseteq PollSet /\ Alone(polls')
    BY <1>1, <2>2, <2>3 DEF Alone
  <2>5. graphs' \in Page /\ graphs'.series = graphs.series /\ graphs'.range = graphs.range /\ (graphs'.forbidden <=> graphs.forbidden)
        /\ graphs'.session = graphs.session /\ graphs'.resource = graphs.resource
    BY <1>1, <2>2 DEF Page
  <2> QED
    BY <1>1, <2>2, <2>3, <2>4, <2>5 DEF MetricInv, OfPage
<1>8. CASE Metrics!ShowAll
  <2>1. card' = [picked |-> None, all |-> ~card.all] /\ UNCHANGED <<graphs, polls, polled>>
    BY <1>8 DEF Metrics!ShowAll
  <2>2. card' \in Card
    <3>1. PICK b \in BOOLEAN : b = (~card.all)
      BY Zenon
    <3> QED
      BY <2>1, <3>1 DEF Card
  <2> QED
    BY <1>1, <2>1, <2>2 DEF MetricInv, Alone
<1>9. ASSUME NEW i \in DOMAIN Metrics!Lines, Metrics!PickSeries(i) PROVE MetricInv'
  <2>1. PICK k : k = Metrics!Key(Metrics!Lines, i)
    OBVIOUS
  <2>2. UNCHANGED <<graphs, polls, polled>> /\ (card' = [card EXCEPT !.picked = None] \/ card' = [card EXCEPT !.picked = k])
    BY <1>9, <2>1 DEF Metrics!PickSeries
  <2>3. k \in STRING \X Nat
    <3>1. graphs.series # None
      BY DEF Metrics!Lines
    <3>2. Metrics!Lines = graphs.series.lines /\ graphs.series \in Metrics!Dashboards(graphs.range) /\ graphs.range \in Ranges
      BY <1>1, <3>1 DEF Metrics!Lines, Page
    <3>3. PICK d \in Metrics!Dashboards(graphs.range) : d = graphs.series
      BY <3>2
    <3>4. i \in Nat /\ d.lines[i].label \in STRING
      BY <3>2, <3>3, LinesAreListed
    <3> QED
      BY <2>1, <3>2, <3>3, <3>4 DEF Metrics!Key
  <2>4. card' \in Card
    BY <1>1, <2>2, <2>3 DEF Card
  <2> QED
    BY <1>1, <2>2, <2>4 DEF MetricInv, Alone
<1>10. CASE UNCHANGED metrics
  BY <1>1, <1>10 DEF metrics, MetricInv, Alone
<1> QED
  BY <1>3, <1>4, <1>5, <1>6, <1>7, <1>8, <1>9, <1>10 DEF Metrics!MNext

LEMMA SeriesAreOfRange == ASSUME MetricConstants, MetricInv PROVE Metrics!MTypeOK /\ Metrics!SeriesOfRange
<1>1. /\ graphs \in Page /\ card \in Card /\ polls \subseteq PollSet /\ polled \in 0..MaxAsks
      /\ graphs.series = None \/ graphs.series \in Metrics!Dashboards(graphs.range)
      /\ graphs.forbidden => graphs.series = None
      /\ Alone(polls)
  BY DEF MetricInv
<1>2. Metrics!MTypeOK
  <2>1. graphs.session \in {1, 2} /\ graphs.range \in Ranges /\ graphs.resource \in 1..(MaxAsks + 1)
        /\ (graphs.series = None \/ graphs.series \in Boards)
    BY <1>1 DEF Page
  <2>2. {graphs.stale, graphs.forbidden, graphs.refused, card.all} \subseteq BOOLEAN
    BY <1>1 DEF Page, Card
  <2>3. card.picked = None \/ card.picked[2] \in Nat
    BY <1>1 DEF Card
  <2> QED
    BY <1>1, <2>1, <2>2, <2>3 DEF Metrics!MTypeOK, Boards, PollSet
<1>3. graphs.series # None => graphs.series.range = graphs.range
  <2>1. graphs.range \in Ranges
    BY <1>1 DEF Page
  <2> QED
    BY <1>1, <2>1, BoardIsOfRange
<1>4. Metrics!Cardinality({p \in polls : ~p.aborted}) <= 1
  <2>1. PICK S : S = {p \in polls : ~p.aborted}
    OBVIOUS
  <2>2. Metrics!Cardinality(S) = Cardinality(S)
    BY Zenon DEF Metrics!Cardinality, Cardinality
  <2>3. S = {} \/ \E p : S = {p}
    BY <1>1, <2>1 DEF Alone
  <2>4. Cardinality({}) = 0 /\ \A p : Cardinality({p}) = 1
    BY FS_EmptySet, FS_Singleton
  <2>5. Cardinality(S) \in {0, 1}
    BY <2>3, <2>4
  <2> QED
    BY <2>1, <2>2, <2>5
<1> QED
  BY <1>1, <1>2, <1>3, <1>4 DEF Metrics!SeriesOfRange

-----------------------------------------------------------------------------
(* SystemStatus *)

StatusConstants == MaxRequests \in Nat /\ MaxChanges \in Nat /\ MaxPoints \in Nat \ {0}

Works == {"ok", "degraded", "down"}
CheckSet == [postgres : Works, valkey : Works, scraper : Works]
ServiceSet == [postgres : {"ok", "down"}, valkey : {"ok", "down"}, processor : Status!Processors, jobs : Nat]
Point == [at : 1..MaxRequests, jobs : Nat]

\* What the backend may answer to a probe of each kind, besides that it cannot.
Told == [status : Works, services : CheckSet]
Published == [processor : {"ok", "partial", None}]
Reading == [at : 1..MaxRequests, jobs : Nat, services : CheckSet, scraper : {"known", "down"}]
Data == Told \cup Published \cup Reading \cup {None}
Reply == [code : {200, 207, 403, 500, 503}, data : Data]
Answers(k, a, n) ==
    \/ a.code \in {403, 500} /\ a.data = None
    \/ k = "health" /\ a.code \in {200, 207, 503} /\ a.data \in Told /\ a.data.status = Status!Aggregate(a.data.services)
    \/ k = "snapshot" /\ a.code = 200 /\ a.data \in Published
    \/ k = "overview" /\ a.code = 200 /\ a.data \in Reading /\ a.data.at = n

Probe == [n : 1..MaxRequests, aborted : BOOLEAN, answer : Reply \cup {None}]
Board == [data : Data, stale : BOOLEAN, forbidden : BOOLEAN]

\* Of a probe that is not given up, no other is under way.
Probes ==
    /\ probes \subseteq Probe /\ probed \in 0..MaxRequests
    /\ \A r \in probes : r.n <= probed /\ (r.answer # None => Answers(kind, r.answer, r.n))
    /\ \A r, q \in probes : r.aborted \/ q.aborted \/ r = q
    /\ board.forbidden => \A r \in probes : r.aborted
World ==
    /\ services \in ServiceSet /\ changes \in 0..MaxChanges /\ services.jobs <= changes /\ kind \in Status!Kinds
    /\ chart \in Seq(Point) /\ Len(chart) <= MaxPoints
\* What the page shows is what it heard last, as far as that could be shown.
Shown ==
    /\ board \in Board
    /\ board.data # None /\ ~board.stale => heard # None /\ heard.data = board.data
    /\ kind = "health" /\ heard # None /\ heard.data # None =>
         ~board.stale /\ board.data = heard.data /\ heard.data \in Told /\ heard.data.status = Status!Aggregate(heard.data.services)
    /\ kind = "snapshot" /\ board.data # None => board.data.processor \in {"ok", "partial"}
    /\ board.forbidden => board.data = None
StatusInv == Probes /\ World /\ Shown

LEMMA AggregateWorks == ASSUME NEW c \in CheckSet
    PROVE  /\ Status!Aggregate(c) \in Works
           /\ Status!Aggregate(c) = "ok" <=> c.postgres = "ok" /\ c.valkey = "ok" /\ c.scraper = "ok"
<1>1. DOMAIN c = {"postgres", "valkey", "scraper"}
  BY DEF CheckSet
<1>2. c.postgres \in Works /\ c.valkey \in Works /\ c.scraper \in Works
  BY DEF CheckSet
<1>3. PICK all : all = {c[s] : s \in DOMAIN c}
  OBVIOUS
<1>4. all = {c.postgres, c.valkey, c.scraper}
  BY <1>1, <1>3
<1>5. Status!Aggregate(c) = IF "down" \in all THEN "down" ELSE IF "degraded" \in all THEN "degraded" ELSE "ok"
  BY <1>3 DEF Status!Aggregate
<1> QED
  BY <1>2, <1>4, <1>5 DEF Works

LEMMA ChecksAre == ASSUME services \in ServiceSet PROVE Status!Checks \in CheckSet
<1>1. Status!CheckScraper \in Works
  BY DEF Status!CheckScraper, Works
<1>2. services.postgres \in Works /\ services.valkey \in Works
  BY DEF ServiceSet, Works
<1> QED
  BY <1>1, <1>2 DEF Status!Checks, Status!CheckPostgres, Status!CheckValkey, CheckSet

LEMMA ReplyAnswers ==
    ASSUME StatusConstants, World, NEW r \in Probe, NEW a, a = Status!Reply(r)
    PROVE  a \in Reply /\ Answers(kind, a, r.n)
<1>1. services \in ServiceSet /\ kind \in Status!Kinds
  BY DEF World
<1>2. PICK c \in CheckSet : c = Status!Checks
  BY <1>1, ChecksAre
<1>3. CASE kind = "health"
  <2>1. PICK w \in Works : w = Status!Aggregate(c)
    BY AggregateWorks
  <2>2. PICK t : t = [status |-> w, services |-> c]
    OBVIOUS
  <2>3. t \in Told
    BY <2>2 DEF Told
  <2>4. PICK k \in {200, 207, 503} : k = Status!HealthCode(w)
    BY DEF Status!HealthCode, Works
  <2>5. a = [code |-> k, data |-> t]
    BY <1>2, <1>3, <2>1, <2>2, <2>4 DEF Status!Reply, Status!Health
  <2>6. a \in Reply
    BY <2>3, <2>5 DEF Reply, Data
  <2>7. Answers(kind, a, r.n)
    BY <1>3, <2>1, <2>2, <2>3, <2>5 DEF Answers
  <2> QED
    BY <2>6, <2>7
<1>4. CASE kind = "snapshot"
  <2>1. PICK p \in {"ok", "partial", None} : p = IF Status!Readable(services.processor) THEN services.processor ELSE None
    BY DEF Status!Readable
  <2>2. PICK t : t = [processor |-> p]
    OBVIOUS
  <2>3. t \in Published
    BY <2>2 DEF Published
  <2>4. a = [code |-> 200, data |-> t]
    BY <1>4, <2>1, <2>2 DEF Status!Reply, Status!Snapshot
  <2>5. a \in Reply
    BY <2>3, <2>4 DEF Reply, Data
  <2>6. Answers(kind, a, r.n)
    BY <1>4, <2>3, <2>4 DEF Answers
  <2> QED
    BY <2>5, <2>6
<1>5. CASE kind = "overview"
  <2>1. a = Status!Overview(r.n)
    BY <1>5 DEF Status!Reply
  <2>2. CASE services.postgres = "down" \/ services.valkey = "down"
    <3>1. a = [code |-> 500, data |-> None]
      BY <2>1, <2>2 DEF Status!Overview
    <3> QED
      BY <3>1 DEF Reply, Data, Answers
  <2>3. CASE ~(services.postgres = "down" \/ services.valkey = "down")
    <3>1. PICK k \in {"known", "down"} : k = IF Status!CheckScraper = "ok" THEN "known" ELSE "down"
      OBVIOUS
    <3>2. PICK t : t = [at |-> r.n, jobs |-> services.jobs, services |-> c, scraper |-> k]
      OBVIOUS
    <3>3. t \in Reading
      <4>1. r.n \in 1..MaxRequests /\ services.jobs \in Nat
        BY <1>1 DEF Probe, ServiceSet
      <4> QED
        BY <3>2, <4>1 DEF Reading
    <3>4. a = [code |-> 200, data |-> t]
      BY <1>2, <2>1, <2>3, <3>1, <3>2 DEF Status!Overview
    <3>5. a \in Reply
      BY <3>3, <3>4 DEF Reply, Data
    <3>6. Answers(kind, a, r.n)
      BY <1>5, <3>2, <3>3, <3>4 DEF Answers
    <3> QED
      BY <3>5, <3>6
  <2> QED
    BY <2>2, <2>3
<1> QED
  BY <1>1, <1>3, <1>4, <1>5 DEF Status!Kinds

\* A reading more on the chart, in the place of one of the same moment, leaves out the oldest.
LEMMA ChartGrows ==
    ASSUME StatusConstants, NEW c \in Seq(Point), NEW p \in Point, NEW s, s = Status!Appended(c, p)
    PROVE  s \in Seq(Point) /\ Len(s) <= MaxPoints
<1>1. MaxPoints \in Nat /\ MaxPoints > 0
  BY DEF StatusConstants
<1>2. PICK whole \in Seq(Point) :
        whole = IF c # << >> /\ Status!LastOf(c).at = p.at THEN Append(SubSeq(c, 1, Len(c) - 1), p) ELSE Append(c, p)
  <2>1. PICK n \in Nat : n = Len(c)
    BY ONLY c \in Seq(Point)
  <2>2. c # << >> => SubSeq(c, 1, n - 1) \in Seq(Point)
    BY ONLY <2>1, c \in Seq(Point)
  <2>3. c # << >> => Append(SubSeq(c, 1, n - 1), p) \in Seq(Point)
    BY ONLY <2>2, p \in Point
  <2>4. Append(c, p) \in Seq(Point)
    BY ONLY c \in Seq(Point), p \in Point
  <2> QED
    BY <2>1, <2>3, <2>4
<1>3. s = Status!NewestOf(whole)
  BY <1>2 DEF Status!Appended
<1>4. PICK n \in Nat : n = Len(whole)
  BY ONLY whole \in Seq(Point)
<1>5. PICK k \in Nat : k = IF n > MaxPoints THEN n - MaxPoints + 1 ELSE 1
  BY <1>1, <1>4
<1>6. s = SubSeq(whole, k, n)
  BY <1>3, <1>4, <1>5 DEF Status!NewestOf
<1>7. k >= 1 /\ k <= n + 1 /\ n - k + 1 <= MaxPoints
  BY ONLY <1>1, <1>5, n \in Nat
<1>8. SubSeq(whole, k, n) \in Seq(Point) /\ Len(SubSeq(whole, k, n)) = n - k + 1
  BY ONLY <1>4, <1>7, whole \in Seq(Point), k \in Nat, n \in Nat
<1> QED
  BY <1>6, <1>7, <1>8

LEMMA StatusStart == ASSUME StatusConstants, Status!SInit PROVE StatusInv
<1>1. /\ services \in [postgres : {"ok"}, valkey : {"ok"}, processor : Status!Processors, jobs : {0}]
      /\ changes = 0 /\ kind \in Status!Kinds /\ chart = << >> /\ probes = {} /\ probed = 0 /\ heard = None
      /\ board = [data |-> None, stale |-> FALSE, forbidden |-> FALSE]
  BY DEF Status!SInit, Status!Fresh
<1>2. services \in ServiceSet /\ services.jobs = 0
  BY <1>1 DEF ServiceSet
<1>3. chart \in Seq(Point) /\ Len(chart) = 0
  BY ONLY <1>1
<1>4. World
  BY <1>1, <1>2, <1>3 DEF World, StatusConstants
<1>5. Shown
  BY <1>1 DEF Shown, Board, Data
<1> QED
  BY <1>1, <1>4, <1>5 DEF StatusInv, Probes, StatusConstants

LEMMA PollKeeps == ASSUME StatusConstants, StatusInv, Status!Poll PROVE StatusInv'
<1>1. Probes /\ World /\ Shown
  BY DEF StatusInv
<1>2. PICK q : q = [n |-> probed + 1, aborted |-> FALSE, answer |-> None]
  OBVIOUS
<1>3. /\ probed < MaxRequests /\ ~board.forbidden /\ \A r \in probes : r.aborted
      /\ probed' = probed + 1 /\ probes' = probes \cup {q} /\ UNCHANGED <<services, changes, kind, board, chart, heard>>
  BY <1>2 DEF Status!Poll
<1>4. probed' \in 0..MaxRequests /\ probed' \in 1..MaxRequests /\ probed' > probed /\ probed \in Nat
  BY <1>1, <1>3 DEF Probes, StatusConstants
<1>5. q \in Probe
  BY <1>2, <1>3, <1>4 DEF Probe
<1>6. \A r \in probes' : r.n <= probed' /\ (r.answer # None => Answers(kind', r.answer, r.n))
  <2>1. \A r \in probes : r.n \in Nat /\ r.n <= probed
    BY <1>1 DEF Probes, Probe
  <2>2. kind' = kind
    BY <1>3
  <2>3. q.n <= probed' /\ q.answer = None
    BY <1>2, <1>3, <1>4
  <2>4. \A r \in probes : r.n <= probed'
    BY <1>4, <2>1
  <2> QED
    BY <1>1, <1>3, <2>2, <2>3, <2>4 DEF Probes
<1>7. Probes'
  BY <1>1, <1>3, <1>4, <1>5, <1>6 DEF Probes
<1>8. World' /\ Shown'
  BY <1>1, <1>3 DEF World, Shown
<1> QED
  BY <1>7, <1>8 DEF StatusInv

LEMMA ServesKeep == ASSUME StatusConstants, StatusInv, NEW r \in probes, Status!Serve(r) PROVE StatusInv'
<1>1. Probes /\ World /\ Shown
  BY DEF StatusInv
<1>2. r \in Probe /\ r.n <= probed
  BY <1>1 DEF Probes
<1>3. PICK a : /\ a = Status!Reply(r) \/ a = [code |-> 403, data |-> None] \/ a = [code |-> 500, data |-> None]
               /\ probes' = (probes \ {r}) \cup {[r EXCEPT !.answer = a]}
  BY DEF Status!Serve
<1>4. UNCHANGED <<services, changes, kind, board, chart, probed, heard>>
  BY DEF Status!Serve
<1>5. a \in Reply /\ Answers(kind, a, r.n)
  <2>1. CASE a = Status!Reply(r)
    BY <1>1, <1>2, <2>1, ReplyAnswers
  <2>2. CASE a = [code |-> 403, data |-> None] \/ a = [code |-> 500, data |-> None]
    BY <2>2 DEF Reply, Data, Answers
  <2> QED
    BY <1>3, <2>1, <2>2
<1>6. PICK q : q = [r EXCEPT !.answer = a]
  OBVIOUS
<1>7. q \in Probe /\ q.n = r.n /\ (q.aborted <=> r.aborted) /\ q.answer = a
  BY <1>2, <1>5, <1>6 DEF Probe
<1>8. kind' = kind
  BY <1>4
<1>9. \A p \in probes' : p.n <= probed' /\ (p.answer # None => Answers(kind', p.answer, p.n))
  <2>1. \A p \in probes : p.n <= probed' /\ (p.answer # None => Answers(kind', p.answer, p.n))
    BY <1>1, <1>4, <1>8 DEF Probes
  <2>2. q.n = r.n /\ q.answer = a /\ r.n <= probed /\ probed' = probed /\ Answers(kind, a, r.n)
    BY <1>2, <1>4, <1>5, <1>7
  <2>3. q.n <= probed' /\ Answers(kind', q.answer, q.n)
    BY ONLY <1>8, <2>2
  <2>4. probes' = (probes \ {r}) \cup {q}
    BY <1>3, <1>6
  <2> QED
    BY ONLY <2>1, <2>3, <2>4
<1>10. Probes'
  <2>1. \A p, s \in probes' : p.aborted \/ s.aborted \/ p = s
    <3>1. \A p, s \in probes : p.aborted \/ s.aborted \/ p = s
      BY <1>1 DEF Probes
    <3>2. probes' = (probes \ {r}) \cup {q} /\ (q.aborted <=> r.aborted)
      BY <1>3, <1>6, <1>7
    <3> QED
      BY ONLY <3>1, <3>2, r \in probes
  <2>2. board'.forbidden => \A p \in probes' : p.aborted
    BY <1>1, <1>3, <1>4, <1>6, <1>7 DEF Probes
  <2> QED
    BY <1>1, <1>3, <1>4, <1>6, <1>7, <1>9, <2>1, <2>2 DEF Probes
<1>11. World' /\ Shown'
  BY <1>1, <1>4 DEF World, Shown
<1> QED
  BY <1>10, <1>11 DEF StatusInv

LEMMA GivesUpKeeps == ASSUME StatusConstants, StatusInv, NEW r \in probes, Status!Deadline(r) PROVE StatusInv'
<1>1. Probes /\ World /\ Shown
  BY DEF StatusInv
<1>2. r \in Probe
  BY <1>1 DEF Probes
<1>3. PICK q : q = [r EXCEPT !.aborted = TRUE]
  OBVIOUS
<1>4. /\ probes' = (probes \ {r}) \cup {q} /\ board' = [board EXCEPT !.stale = TRUE] /\ heard' = None
      /\ UNCHANGED <<services, changes, kind, chart, probed>>
  BY <1>3 DEF Status!Deadline
<1>5. q \in Probe /\ q.n = r.n /\ q.aborted /\ q.answer = r.answer
  BY <1>2, <1>3 DEF Probe
<1>6. board' \in Board /\ board'.stale /\ board'.data = board.data /\ (board'.forbidden <=> board.forbidden)
  BY <1>1, <1>4 DEF Shown, Board
<1>7. Shown'
  BY <1>1, <1>4, <1>6 DEF Shown
<1>8. kind' = kind
  BY <1>4
<1>9. Probes'
  <2>1. \A p \in probes' : p \in Probe /\ p.n <= probed' /\ (p.answer # None => Answers(kind', p.answer, p.n))
    BY <1>1, <1>4, <1>5, <1>8 DEF Probes
  <2>2. \A p, s \in probes' : p.aborted \/ s.aborted \/ p = s
    BY <1>1, <1>4, <1>5 DEF Probes
  <2>3. board'.forbidden => \A p \in probes' : p.aborted
    BY <1>1, <1>4, <1>5, <1>6 DEF Probes
  <2> QED
    BY <1>1, <1>4, <2>1, <2>2, <2>3 DEF Probes
<1>10. World'
  BY <1>1, <1>4 DEF World
<1> QED
  BY <1>7, <1>9, <1>10 DEF StatusInv

\* What arrives is noted in the order in which it arrives, whatever was given up before.
LEMMA ArrivesKeep == ASSUME StatusConstants, StatusInv, NEW r \in probes, Status!Arrive(r) PROVE StatusInv'
<1>1. Probes /\ World /\ Shown
  BY DEF StatusInv
<1>2. /\ r \in Probe /\ r.n <= probed /\ r.answer # None /\ r.answer \in Reply /\ Answers(kind, r.answer, r.n)
      /\ board \in Board
  BY <1>1 DEF Probes, Probe, Shown, Status!Arrive
<1>3. /\ probes' = probes \ {r} /\ UNCHANGED <<services, changes, kind, probed>>
      /\ chart' = IF Status!Charts(r) THEN Status!Appended(chart, [at |-> r.answer.data.at, jobs |-> r.answer.data.jobs]) ELSE chart
      /\ heard' = IF r.aborted THEN heard ELSE r.answer
  BY DEF Status!Arrive
<1>4. r.aborted => board' = board
  BY DEF Status!Arrive
<1>5. ~r.aborted => \A p \in probes' : p.aborted
  BY <1>1, <1>3 DEF Probes
<1>6. board.forbidden => r.aborted
  BY <1>1 DEF Probes
<1>7. PICK a : a = r.answer
  OBVIOUS
<1>8. \/ r.aborted
      \/ a.code = 403 /\ board' = [data |-> None, stale |-> TRUE, forbidden |-> TRUE]
      \/ a.code # 403 /\ board' = [board EXCEPT !.stale = TRUE]
         /\ ~(Status!Accepted(a.code) /\ Status!Parses(a.data) /\ Status!Accept(a.data))
      \/ /\ Status!Accepted(a.code) /\ Status!Parses(a.data) /\ Status!Accept(a.data)
         /\ a.code # 403 /\ board' = [board EXCEPT !.data = a.data, !.stale = FALSE]
  <2>1. CASE ~r.aborted /\ a.code = 403
    BY <1>7, <2>1 DEF Status!Arrive, Status!Fresh
  <2>2. CASE ~r.aborted /\ a.code # 403 /\ Status!Accepted(a.code) /\ Status!Parses(a.data) /\ Status!Accept(a.data)
    BY <1>7, <2>2 DEF Status!Arrive
  <2>3. CASE ~r.aborted /\ a.code # 403 /\ ~(Status!Accepted(a.code) /\ Status!Parses(a.data) /\ Status!Accept(a.data))
    BY <1>7, <2>3 DEF Status!Arrive
  <2> QED
    BY <2>1, <2>2, <2>3
<1>9. a \in Reply /\ Answers(kind, a, r.n) /\ (~r.aborted => heard' = a) /\ a # None
  BY <1>2, <1>3, <1>7
<1>10. Shown'
  <2>1. CASE r.aborted
    <3>1. UNCHANGED <<board, heard, kind>>
      BY <1>3, <1>4, <2>1
    <3> QED
      BY <1>1, <3>1 DEF Shown
  <2>2. CASE ~r.aborted /\ a.code = 403 /\ board' = [data |-> None, stale |-> TRUE, forbidden |-> TRUE]
    <3>1. board' \in Board /\ board'.data = None /\ board'.stale
      BY <2>2 DEF Board, Data
    <3>2. a.data = None
      BY <1>9, <2>2 DEF Answers
    <3>3. heard' = a /\ kind' = kind
      BY <1>3, <1>9, <2>2
    <3> QED
      BY <3>1, <3>2, <3>3 DEF Shown
  <2>3. CASE ~r.aborted /\ a.code # 403 /\ board' = [board EXCEPT !.stale = TRUE]
             /\ ~(Status!Accepted(a.code) /\ Status!Parses(a.data) /\ Status!Accept(a.data))
    <3>1. board' \in Board /\ board'.data = board.data /\ board'.stale /\ (board'.forbidden <=> board.forbidden)
      BY <1>2, <2>3 DEF Board
    <3>2. kind = "health" => a.data = None
      <4>1. kind = "health" /\ a.code \in {200, 207, 503} => Status!Accepted(a.code) /\ Status!Parses(a.data) /\ Status!Accept(a.data)
        BY DEF Status!Accepted, Status!Parses, Status!Accept
      <4> QED
        BY <1>9, <2>3, <4>1 DEF Answers
    <3>3. heard' = a /\ kind' = kind
      BY <1>3, <1>9, <2>3
    <3> QED
      BY <1>1, <3>1, <3>2, <3>3 DEF Shown
  <2>4. CASE /\ ~r.aborted /\ Status!Accepted(a.code) /\ Status!Parses(a.data) /\ Status!Accept(a.data)
             /\ a.code # 403 /\ board' = [board EXCEPT !.data = a.data, !.stale = FALSE]
    <3>1. board' \in Board /\ board'.data = a.data /\ ~board'.stale /\ (board'.forbidden <=> board.forbidden)
      <4>1. a.data \in Data
        BY <1>9 DEF Reply
      <4> QED
        BY <1>2, <2>4, <4>1 DEF Board
    <3>2. kind = "snapshot" => a.data.processor \in {"ok", "partial"}
      BY <2>4 DEF Status!Parses, Status!Accept
    <3>3. kind = "health" /\ a.data # None => a.data \in Told /\ a.data.status = Status!Aggregate(a.data.services)
      BY <1>9 DEF Answers
    <3>4. heard' = a /\ kind' = kind /\ a # None /\ ~board.forbidden
      BY <1>3, <1>6, <1>9, <2>4
    <3> QED
      BY <3>1, <3>2, <3>3, <3>4 DEF Shown
  <2> QED
    BY <1>8, <2>1, <2>2, <2>3, <2>4
<1>11. World'
  <2>1. services' \in ServiceSet /\ changes' \in 0..MaxChanges /\ services'.jobs <= changes' /\ kind' \in Status!Kinds
    BY <1>1, <1>3 DEF World
  <2>2. CASE ~Status!Charts(r)
    BY <1>1, <1>3, <2>1, <2>2 DEF World
  <2>3. CASE Status!Charts(r)
    <3>1. a.data \in Reading
      BY <1>7, <1>9, <2>3 DEF Status!Charts, Answers
    <3>2. PICK p : p = [at |-> a.data.at, jobs |-> a.data.jobs]
      OBVIOUS
    <3>3. p \in Point
      BY <3>1, <3>2 DEF Reading, Point
    <3>4. chart' = Status!Appended(chart, p) /\ chart \in Seq(Point)
      BY <1>1, <1>3, <1>7, <2>3, <3>2 DEF World
    <3> QED
      BY <2>1, <3>3, <3>4, ChartGrows DEF World
  <2> QED
    BY <2>2, <2>3
<1>12. Probes'
  <2>1. board'.forbidden => \A p \in probes' : p.aborted
    <3>1. r.aborted => (board'.forbidden => \A p \in probes : p.aborted)
      BY <1>1, <1>4 DEF Probes
    <3> QED
      BY <1>3, <1>5, <3>1
  <2> QED
    BY <1>1, <1>3, <2>1 DEF Probes
<1> QED
  BY <1>10, <1>11, <1>12 DEF StatusInv

LEMMA WorldChanges == ASSUME StatusConstants, StatusInv, Status!Befalls PROVE StatusInv'
<1>1. Probes /\ World /\ Shown
  BY DEF StatusInv
<1>2. services \in ServiceSet /\ changes < MaxChanges /\ changes' = changes + 1 /\ UNCHANGED <<kind, board, chart, probes, probed, heard>>
  BY <1>1 DEF World, Status!Befalls
<1>3. services' \in ServiceSet /\ (services'.jobs = services.jobs \/ services'.jobs = services.jobs + 1)
  <2>1. ASSUME NEW s \in {"postgres", "valkey"}, services' = [services EXCEPT ![s] = IF @ = "ok" THEN "down" ELSE "ok"]
        PROVE  services' \in ServiceSet /\ services'.jobs = services.jobs
    <3>1. PICK w \in {"ok", "down"} : w = IF services[s] = "ok" THEN "down" ELSE "ok"
      OBVIOUS
    <3>2. services' = [services EXCEPT !.postgres = w] \/ services' = [services EXCEPT !.valkey = w]
      BY <2>1, <3>1
    <3> QED
      BY <1>2, <3>2 DEF ServiceSet
  <2>2. ASSUME NEW p \in Status!Processors, services' = [services EXCEPT !.processor = p]
        PROVE  services' \in ServiceSet /\ services'.jobs = services.jobs
    BY <1>2, <2>2 DEF ServiceSet
  <2>3. ASSUME services' = [services EXCEPT !.jobs = @ + 1]
        PROVE  services' \in ServiceSet /\ services'.jobs = services.jobs + 1
    <3>1. PICK n \in Nat : n = services.jobs + 1
      BY <1>2 DEF ServiceSet
    <3>2. services' = [services EXCEPT !.jobs = n]
      BY <2>3, <3>1
    <3> QED
      BY <1>2, <3>1, <3>2 DEF ServiceSet
  <2> QED
    BY <2>1, <2>2, <2>3 DEF Status!Befalls
<1>4. World'
  <2>1. changes \in Nat /\ services.jobs \in Nat /\ services.jobs <= changes /\ changes' \in 0..MaxChanges
    BY <1>1, <1>2 DEF World, StatusConstants, ServiceSet
  <2>2. services'.jobs <= changes'
    BY <1>2, <1>3, <2>1
  <2> QED
    BY <1>1, <1>2, <1>3, <2>1, <2>2 DEF World
<1>5. Probes' /\ Shown'
  BY <1>1, <1>2 DEF Probes, Shown
<1> QED
  BY <1>4, <1>5 DEF StatusInv

LEMMA StatusStep == ASSUME StatusConstants, StatusInv, Status!SNext \/ UNCHANGED status PROVE StatusInv'
<1>1. CASE UNCHANGED status
  <2>1. UNCHANGED <<services, changes, kind, board, chart, probes, probed, heard>>
    BY <1>1 DEF status
  <2> QED
    BY <2>1 DEF StatusInv, Probes, World, Shown
<1>2. ASSUME NEW r \in probes, Status!Serve(r) \/ Status!Arrive(r) \/ Status!Deadline(r) PROVE StatusInv'
  BY <1>2, ServesKeep, ArrivesKeep, GivesUpKeeps
<1> QED
  BY <1>1, <1>2, WorldChanges, PollKeeps DEF Status!SNext

LEMMA StatusIsTold == ASSUME StatusConstants, StatusInv PROVE Status!STypeOK /\ Status!StatusIsHonest
<1>1. Probes /\ World /\ Shown
  BY DEF StatusInv
<1>2. Status!STypeOK
  <2>1. services.postgres \in {"ok", "down"} /\ services.valkey \in {"ok", "down"} /\ services.processor \in Status!Processors
        /\ services.jobs \in 0..MaxChanges /\ changes \in 0..MaxChanges /\ kind \in Status!Kinds
    BY <1>1 DEF World, ServiceSet, StatusConstants
  <2>2. {board.stale, board.forbidden} \subseteq BOOLEAN
    BY <1>1 DEF Shown, Board
  <2>3. Len(chart) <= MaxPoints /\ \A i \in DOMAIN chart : chart[i].at \in 1..MaxRequests
    <3>1. chart \in Seq(Point) /\ Len(chart) <= MaxPoints
      BY <1>1 DEF World
    <3>2. \A i \in DOMAIN chart : chart[i] \in Point
      BY ONLY <3>1
    <3> QED
      BY <3>1, <3>2 DEF Point
  <2>4. probed \in 0..MaxRequests /\ \A r \in probes : r.n \in 1..probed
    BY <1>1 DEF Probes, Probe, StatusConstants
  <2> QED
    BY <2>1, <2>2, <2>3, <2>4 DEF Status!STypeOK
<1>3. board.data # None /\ ~board.stale => Status!Told = board.data
  BY <1>1 DEF Shown, Status!Told
<1>4. ASSUME kind = "health", Status!Told # None
      PROVE  /\ ~board.stale
             /\ \A s \in DOMAIN Status!Checks : Status!Tile(s) = Status!Told.services[s]
             /\ Status!Told.status = "ok" <=> \A s \in DOMAIN Status!Checks : Status!Tile(s) = "ok"
  <2>1. PICK d : d = heard.data
    OBVIOUS
  <2>2. Status!Told = d /\ heard # None /\ d # None
    BY <1>4, <2>1 DEF Status!Told
  <2>3. ~board.stale /\ board.data = d /\ d \in Told /\ d.status = Status!Aggregate(d.services)
    BY <1>1, <1>4, <2>1, <2>2 DEF Shown
  <2>4. PICK c \in CheckSet : c = d.services
    BY <2>3 DEF Told
  <2>5. DOMAIN Status!Checks = {"postgres", "valkey", "scraper"}
    BY DEF Status!Checks
  <2>6. \A s \in DOMAIN Status!Checks : Status!Tile(s) = c[s]
    BY <2>2, <2>3, <2>4, <2>5 DEF Status!Tile
  <2>7. d.status = "ok" <=> c["postgres"] = "ok" /\ c["valkey"] = "ok" /\ c["scraper"] = "ok"
    BY <2>3, <2>4, AggregateWorks
  <2>8. d.status = "ok" <=> \A s \in DOMAIN Status!Checks : c[s] = "ok"
    BY ONLY <2>5, <2>7
  <2> QED
    BY <2>2, <2>3, <2>4, <2>6, <2>8
<1>5. kind = "overview" /\ board.data # None =>
        \A s \in DOMAIN Status!Checks : Status!Listed(s) = "success" <=> board.data.services[s] = "ok"
  <2>1. ASSUME NEW s PROVE Status!Listed(s) = "success" <=> board.data.services[s] = "ok"
    <3>1. PICK v : v = board.data.services[s]
      OBVIOUS
    <3>2. Status!Listed(s) = CASE v = "ok" -> "success" [] v = "degraded" -> "warning" [] OTHER -> "danger"
      BY <3>1 DEF Status!Listed
    <3>3. CASE v = "ok"
      BY <3>1, <3>2, <3>3
    <3>4. CASE v = "degraded"
      BY <3>1, <3>2, <3>4
    <3>5. CASE v # "ok" /\ v # "degraded"
      BY <3>1, <3>2, <3>5
    <3> QED
      BY <3>3, <3>4, <3>5
  <2> QED
    BY <2>1
<1>6. kind = "snapshot" /\ ~Status!Unavailable => Status!Told.processor = "ok"
  BY <1>1, <1>3 DEF Shown, Status!Unavailable
<1>7. board.forbidden => board.data = None
  BY <1>1 DEF Shown
<1> QED
  BY <1>2, <1>3, <1>4, <1>5, <1>6, <1>7 DEF Status!StatusIsHonest

-----------------------------------------------------------------------------
(* ScraperConsole *)

ConsoleConstants == MaxAsks \in Nat /\ MaxVisits \in Nat \ {0} /\ MaxTicks \in Nat /\ None \notin {200, 202, 403, 409}

Processor == [running : BOOLEAN, lock : BOOLEAN, ticks : 0..MaxTicks]
Console0 == [visit : 1..MaxVisits, open : BOOLEAN, active : BOOLEAN \cup {None}, pending : {None, "asked", "reading"},
             starting : BOOLEAN, clearing : {None, "asked", "reading"}, forbidden : BOOLEAN]
Replies == {None, 200, 202, 403, 409, 500, 503}
TriggerSet == [id : 1..MaxAsks, kind : {"run", "clear"}, visit : 1..MaxVisits, taken : BOOLEAN, reply : Replies]
Saying == [id : 1..MaxAsks, what : {"started", "running", "cleared", "failed"}]

\* What an answer says became of the request; one that was not taken was at most given up.
Answered(o, r) ==
    /\ r.kind = "clear" => ~r.taken /\ r.reply \in {None, 200, 500} /\ (r.reply = 200 => o = "cleared")
    /\ r.kind = "run" => /\ r.reply # 200
                         /\ r.taken /\ r.reply = None => o \in {"accepted", "running", "unavailable"}
                         /\ r.reply = 202 => r.taken /\ o = "accepted"
                         /\ r.reply = 409 => r.taken /\ o = "running"
                         /\ ~r.taken => r.reply \in {None, 500}
IsSo(o, t) ==
    /\ t.what = "started" => o = "accepted"
    /\ t.what = "running" => o = "running"
    /\ t.what = "cleared" => o = "cleared"

Machines ==
    /\ processor \in Processor /\ outcome \in [1..MaxAsks -> Console!Outcomes \cup {None}]
    /\ console \in Console0 /\ triggers \in 0..MaxAsks
Triggers ==
    /\ requests \subseteq TriggerSet
    /\ \A r \in requests : r.id <= triggers /\ Answered(outcome[r.id], r)
    /\ \A r, q \in requests : r.id = q.id => r = q
\* What was said of a request that is still on its way is that it failed.
Said ==
    /\ told \subseteq Saying
    /\ \A t \in told : t.id <= triggers /\ IsSo(outcome[t.id], t)
    /\ \A t \in told : \A r \in requests : t.id = r.id => t.what = "failed"
    /\ audited \subseteq 1..MaxAsks
    /\ \A i \in audited : i <= triggers /\ outcome[i] = "accepted"
    /\ \A r \in requests : r.id \in audited => r.kind = "run" /\ r.taken
Unheard(r) == r.kind = "run" /\ r.visit = console.visit /\ \A t \in told : t.id # r.id
Starting == console.open /\ console.starting => console.pending = "reading" \/ \E r \in requests : Unheard(r)
ConsoleInv == Machines /\ Triggers /\ Said /\ Starting

LEMMA ConsoleStart == ASSUME ConsoleConstants, Console!CInit PROVE ConsoleInv
<1>1. /\ processor \in [running : BOOLEAN, lock : {TRUE}, ticks : {0}]
      /\ outcome = [i \in 1..MaxAsks |-> None]
      /\ console = [visit |-> 1, open |-> TRUE, active |-> None, pending |-> None, starting |-> FALSE, clearing |-> None,
                    forbidden |-> FALSE]
      /\ requests = {} /\ triggers = 0 /\ told = {} /\ audited = {}
  BY DEF Console!CInit, Console!Opened, Console!RequestIds
<1>2. processor \in Processor /\ triggers \in 0..MaxAsks
  <2>1. 0 \in 0..MaxTicks /\ 0 \in 0..MaxAsks
    BY DEF ConsoleConstants
  <2> QED
    BY <1>1, <2>1 DEF Processor
<1>3. console \in Console0
  <2>1. 1 \in 1..MaxVisits
    BY DEF ConsoleConstants
  <2> QED
    BY <1>1, <2>1 DEF Console0
<1>4. Machines
  BY <1>1, <1>2, <1>3 DEF Machines
<1>5. ~console.starting
  BY <1>1
<1> QED
  BY <1>1, <1>4, <1>5 DEF ConsoleInv, Triggers, Said, Starting

\* A request is replaced by itself, further on: taken, answered or given up.
LEMMA FurtherKeeps ==
    ASSUME ConsoleConstants, ConsoleInv, NEW r \in requests, NEW q \in TriggerSet, q.id = r.id, q.kind = r.kind, q.visit = r.visit,
           requests' = (requests \ {r}) \cup {q}, processor' \in Processor,
           outcome' \in [1..MaxAsks -> Console!Outcomes \cup {None}],
           \A i \in 1..MaxAsks : i # r.id => outcome'[i] = outcome[i],
           Answered(outcome'[r.id], q),
           audited' \subseteq audited \cup {r.id},
           r.id \in audited' => outcome'[r.id] = "accepted" /\ q.kind = "run" /\ q.taken,
           UNCHANGED <<console, triggers, told>>
    PROVE  ConsoleInv'
<1>1. Machines /\ Triggers /\ Said /\ Starting
  BY DEF ConsoleInv
<1>2. Machines'
  BY <1>1 DEF Machines
<1>3. \A p \in requests : p \in TriggerSet /\ p.id \in 1..MaxAsks /\ p.id <= triggers /\ Answered(outcome[p.id], p)
  BY <1>1 DEF Triggers, TriggerSet
<1>4. \A p \in requests : p # r => p.id # r.id
  BY <1>1 DEF Triggers
<1>5. Triggers'
  <2>1. ASSUME NEW p \in requests' PROVE p \in TriggerSet /\ p.id <= triggers' /\ Answered(outcome'[p.id], p)
    <3>1. CASE p = q
      BY <1>3, <3>1
    <3>2. CASE p \in requests /\ p # r
      BY <1>3, <1>4, <3>2
    <3> QED
      BY <3>1, <3>2
  <2>2. \A p, s \in requests' : p.id = s.id => p = s
    <3>1. \A p, s \in requests : p.id = s.id => p = s
      BY <1>1 DEF Triggers
    <3> QED
      BY <1>4, <3>1
  <2> QED
    BY <2>1, <2>2 DEF Triggers
<1>6. Said'
  <2>1. \A t \in told : t \in Saying /\ t.id \in 1..MaxAsks /\ t.id <= triggers /\ IsSo(outcome[t.id], t)
    BY <1>1 DEF Said, Saying
  <2>2. \A t \in told : \A p \in requests : t.id = p.id => t.what = "failed"
    BY <1>1 DEF Said
  <2>3. \A t \in told : IsSo(outcome'[t.id], t)
    <3>1. \A t \in told : t.id = r.id => t.what = "failed"
      BY <2>2
    <3>2. \A o, t : t.what = "failed" => IsSo(o, t)
      BY DEF IsSo
    <3> QED
      BY <2>1, <3>1, <3>2
  <2>4. \A t \in told : \A p \in requests' : t.id = p.id => t.what = "failed"
    BY <2>2
  <2>5. audited' \subseteq 1..MaxAsks /\ \A i \in audited' : i <= triggers' /\ outcome'[i] = "accepted"
    <3>1. audited \subseteq 1..MaxAsks /\ \A i \in audited : i <= triggers /\ outcome[i] = "accepted"
      BY <1>1 DEF Said
    <3> QED
      BY <1>3, <3>1
  <2>6. \A p \in requests' : p.id \in audited' => p.kind = "run" /\ p.taken
    <3>1. \A p \in requests : p.id \in audited => p.kind = "run" /\ p.taken
      BY <1>1 DEF Said
    <3> QED
      BY <1>4, <3>1
  <2> QED
    BY <2>1, <2>3, <2>4, <2>5, <2>6 DEF Said
<1>7. Starting'
  <2>1. console' = console /\ told' = told
    OBVIOUS
  <2>2. ASSUME NEW w \in requests, Unheard(w) PROVE \E p \in requests' : Unheard(p)'
    <3>1. CASE w = r
      <4>1. Unheard(q)'
        BY <2>1, <2>2, <3>1 DEF Unheard
      <4> QED
        BY <4>1
    <3>2. CASE w # r
      <4>1. Unheard(w)' /\ w \in requests'
        BY <2>1, <2>2, <3>2 DEF Unheard
      <4> QED
        BY <4>1
    <3> QED
      BY <3>1, <3>2
  <2> QED
    BY <1>1, <2>1, <2>2 DEF Starting
<1> QED
  BY <1>2, <1>5, <1>6, <1>7 DEF ConsoleInv

LEMMA TakeKeeps == ASSUME ConsoleConstants, ConsoleInv, NEW r \in requests, Console!Take(r) PROVE ConsoleInv'
<1>1. Machines /\ Triggers /\ Said /\ Starting
  BY DEF ConsoleInv
<1>2. r \in TriggerSet /\ r.id \in 1..MaxAsks /\ Answered(outcome[r.id], r) /\ r.kind = "run" /\ ~r.taken
  BY <1>1 DEF Triggers, TriggerSet, Console!Take
<1>3. PICK v \in {"accepted", "running", "unavailable"} : v = Console!Verdict
  BY DEF Console!Verdict
<1>4. outcome' = [outcome EXCEPT ![r.id] = v] /\ UNCHANGED <<console, triggers, told, audited>>
  BY <1>3 DEF Console!Take
<1>5. processor' \in Processor
  <2>1. PICK b \in BOOLEAN : b = (processor.running \/ v = "accepted")
    BY Zenon
  <2>2. processor' = [processor EXCEPT !.running = b]
    BY <1>3, <2>1 DEF Console!Take
  <2> QED
    BY <1>1, <2>2 DEF Machines, Processor
<1>6. outcome' \in [1..MaxAsks -> Console!Outcomes \cup {None}] /\ outcome'[r.id] = v
      /\ \A i \in 1..MaxAsks : i # r.id => outcome'[i] = outcome[i]
  BY <1>1, <1>2, <1>4 DEF Machines, Console!Outcomes
<1>7. r.id \notin audited
  BY <1>1, <1>2 DEF Said
<1>8. CASE r.id \in Console!Heard
  <2>1. requests' = requests \ {r}
    BY <1>8 DEF Console!Take
  <2>2. \A p \in requests' : p \in TriggerSet /\ p.id \in 1..MaxAsks /\ p.id # r.id
    BY <1>1, <2>1 DEF Triggers, TriggerSet
  <2>3. Triggers'
    BY <1>1, <1>4, <1>6, <2>1, <2>2 DEF Triggers
  <2>4. Said'
    <3>1. \A t \in told : t \in Saying /\ t.id \in 1..MaxAsks /\ t.id <= triggers /\ IsSo(outcome[t.id], t)
          /\ (t.id = r.id => t.what = "failed")
      BY <1>1 DEF Said, Saying
    <3>2. \A o, t : t.what = "failed" => IsSo(o, t)
      BY DEF IsSo
    <3>3. \A t \in told : IsSo(outcome'[t.id], t)
      BY <1>6, <3>1, <3>2
    <3> QED
      BY <1>1, <1>4, <1>6, <1>7, <2>1, <3>3 DEF Said
  <2>5. Starting'
    <3>1. console' = console /\ told' = told
      BY <1>4
    <3>2. \E t \in told : t.id = r.id
      BY <1>8 DEF Console!Heard
    <3>3. \A w \in requests : Unheard(w) => w \in requests' /\ Unheard(w)'
      BY <2>1, <3>1, <3>2 DEF Unheard
    <3> QED
      BY <1>1, <3>1, <3>3 DEF Starting
  <2>6. Machines'
    BY <1>1, <1>4, <1>5, <1>6 DEF Machines
  <2> QED
    BY <2>3, <2>4, <2>5, <2>6 DEF ConsoleInv
<1>9. CASE r.id \notin Console!Heard
  <2>1. PICK q : q = [r EXCEPT !.taken = TRUE]
    OBVIOUS
  <2>2. requests' = (requests \ {r}) \cup {q}
    BY <1>9, <2>1 DEF Console!Take
  <2>3. q \in TriggerSet /\ q.id = r.id /\ q.kind = r.kind /\ q.visit = r.visit /\ q.taken /\ q.reply = r.reply
    <3>1. r \in TriggerSet
      BY <1>2
    <3> QED
      BY ONLY <2>1, <3>1 DEF TriggerSet
  <2>4. Answered(v, q)
    BY <1>2, <2>3 DEF Answered, ConsoleConstants
  <2> QED
    BY <1>4, <1>5, <1>6, <1>7, <2>2, <2>3, <2>4, FurtherKeeps
<1> QED
  BY <1>8, <1>9

LEMMA VerdictKeeps ==
    ASSUME ConsoleConstants, ConsoleInv, NEW r \in requests, Console!Answer(r) \/ Console!GiveUp(r) \/ Console!Clear(r)
    PROVE  ConsoleInv'
<1>1. Machines /\ Triggers /\ Said
  BY DEF ConsoleInv
<1>2. r \in TriggerSet /\ r.id \in 1..MaxAsks /\ Answered(outcome[r.id], r) /\ r.taken \in BOOLEAN
  BY <1>1 DEF Triggers, TriggerSet
<1>3. /\ processor \in Processor /\ processor' = processor /\ console' = console /\ triggers' = triggers /\ told' = told
      /\ outcome \in [1..MaxAsks -> Console!Outcomes \cup {None}]
  BY <1>1 DEF Machines, Console!Answer, Console!GiveUp, Console!Clear
<1>4. r.id \in audited => outcome[r.id] = "accepted" /\ r.kind = "run" /\ r.taken
  BY <1>1 DEF Said
<1>5. {200, 202, 403, 409, 500, 503} \subseteq Replies
  BY DEF Replies
<1>6. None \notin {200, 202, 403, 409}
  BY DEF ConsoleConstants
<1>7. ASSUME Console!Refuse(r), audited' = audited, outcome' = outcome, r.kind = "run", ~r.taken PROVE ConsoleInv'
  <2>1. PICK q : q = [r EXCEPT !.reply = 403, !.taken = TRUE]
    OBVIOUS
  <2>2. q \in TriggerSet /\ q.id = r.id /\ q.kind = r.kind /\ q.visit = r.visit /\ q.taken /\ q.reply = 403
    <3>1. r \in TriggerSet /\ 403 \in Replies
      BY <1>2, <1>5
    <3> QED
      BY ONLY <2>1, <3>1 DEF TriggerSet
  <2>3. requests' = (requests \ {r}) \cup {q}
    BY <1>7, <2>1 DEF Console!Refuse
  <2>4. Answered(outcome[r.id], q)
    BY <1>6, <1>7, <2>2 DEF Answered
  <2> QED
    BY <1>2, <1>3, <1>4, <1>7, <2>2, <2>3, <2>4, FurtherKeeps
<1>8. ASSUME NEW s \in Replies, Console!Reply(r, s), outcome' \in [1..MaxAsks -> Console!Outcomes \cup {None}],
             \A i \in 1..MaxAsks : i # r.id => outcome'[i] = outcome[i],
             \A q : q.kind = r.kind /\ (q.taken <=> r.taken) /\ q.reply = s => Answered(outcome'[r.id], q),
             audited' \subseteq audited \cup {r.id},
             r.id \in audited' => outcome'[r.id] = "accepted" /\ r.kind = "run" /\ r.taken
      PROVE  ConsoleInv'
  <2>1. PICK q : q = [r EXCEPT !.reply = s]
    OBVIOUS
  <2>2. q \in TriggerSet /\ q.id = r.id /\ q.kind = r.kind /\ q.visit = r.visit /\ (q.taken <=> r.taken) /\ q.reply = s
    BY <1>2, <1>8, <2>1 DEF TriggerSet
  <2>3. requests' = (requests \ {r}) \cup {q}
    BY <1>8, <2>1 DEF Console!Reply
  <2> QED
    BY <1>3, <1>8, <2>2, <2>3, FurtherKeeps
<1>9. CASE Console!Answer(r)
  <2>1. r.kind = "run" /\ r.reply = None /\ outcome' = outcome
    BY <1>9 DEF Console!Answer
  <2>2. CASE ~r.taken /\ Console!Refuse(r) /\ audited' = audited
    BY <1>7, <2>1, <2>2
  <2>3. CASE r.taken /\ Console!Reply(r, Console!Status(outcome[r.id]))
             /\ audited' \in {audited, IF Console!Status(outcome[r.id]) = 202 THEN audited \cup {r.id} ELSE audited}
    <3>1. PICK o \in {"accepted", "running", "unavailable"} : o = outcome[r.id]
      BY <1>2, <2>1, <2>3 DEF Answered
    <3>2. PICK s \in {202, 409, 503} : s = Console!Status(o) /\ (s = 202 => o = "accepted") /\ (s = 409 => o = "running")
      BY DEF Console!Status
    <3>3. s \in Replies
      BY <1>5
    <3>4. \A q : q.kind = r.kind /\ (q.taken <=> r.taken) /\ q.reply = s => Answered(outcome'[r.id], q)
      BY <1>6, <2>1, <2>3, <3>1, <3>2 DEF Answered
    <3>5. Console!Reply(r, s) /\ audited' \in {audited, IF s = 202 THEN audited \cup {r.id} ELSE audited}
      BY <2>3, <3>1, <3>2
    <3> QED
      BY <1>3, <1>4, <1>8, <2>1, <2>3, <3>1, <3>2, <3>3, <3>4, <3>5
  <2> QED
    BY <1>9, <2>2, <2>3 DEF Console!Answer
<1>10. CASE Console!GiveUp(r)
  <2>1. r.kind = "run" /\ r.reply = None /\ Console!Reply(r, 500) /\ outcome' = outcome /\ audited' = audited
    BY <1>10 DEF Console!GiveUp
  <2>2. \A q : q.kind = r.kind /\ (q.taken <=> r.taken) /\ q.reply = 500 => Answered(outcome'[r.id], q)
    BY <1>2, <1>6, <2>1 DEF Answered
  <2>3. 500 \in Replies
    BY <1>5
  <2> QED
    BY <1>3, <1>4, <1>8, <2>1, <2>2, <2>3
<1>11. CASE Console!Clear(r)
  <2>1. r.kind = "clear" /\ r.reply = None /\ ~r.taken /\ audited' = audited /\ r.id \notin audited
    BY <1>2, <1>4, <1>11 DEF Console!Clear, Answered
  <2>2. CASE Console!Reply(r, 200) /\ outcome' = [outcome EXCEPT ![r.id] = "cleared"]
    <3>1. outcome' \in [1..MaxAsks -> Console!Outcomes \cup {None}] /\ outcome'[r.id] = "cleared"
          /\ \A i \in 1..MaxAsks : i # r.id => outcome'[i] = outcome[i]
      BY <1>2, <1>3, <2>2 DEF Console!Outcomes
    <3>2. \A q : q.kind = r.kind /\ (q.taken <=> r.taken) /\ q.reply = 200 => Answered(outcome'[r.id], q)
      BY <1>6, <2>1, <3>1 DEF Answered
    <3>3. 200 \in Replies
      BY <1>5
    <3> QED
      BY <1>8, <2>1, <2>2, <3>1, <3>2, <3>3
  <2>3. CASE Console!Reply(r, 500) /\ outcome' = outcome
    <3>1. \A q : q.kind = r.kind /\ (q.taken <=> r.taken) /\ q.reply = 500 => Answered(outcome'[r.id], q)
      BY <1>6, <2>1, <2>3 DEF Answered
    <3>2. 500 \in Replies
      BY <1>5
    <3> QED
      BY <1>3, <1>8, <2>1, <2>3, <3>1, <3>2
  <2> QED
    BY <1>11, <2>2, <2>3 DEF Console!Clear
<1> QED
  BY <1>9, <1>10, <1>11

\* The page alone changes, or the processor.
LEMMA PageKeeps ==
    ASSUME ConsoleInv, processor' \in Processor, console' \in Console0, Starting',
           UNCHANGED <<outcome, requests, triggers, told, audited>>
    PROVE  ConsoleInv'
<1>1. Machines /\ Triggers /\ Said
  BY DEF ConsoleInv
<1>2. Machines' /\ Triggers' /\ Said'
  BY <1>1 DEF Machines, Triggers, Said
<1> QED
  BY <1>2 DEF ConsoleInv

\* What the page waits for stays on its way.
LEMMA WaitKeeps ==
    ASSUME Starting, UNCHANGED <<requests, told>>, console'.visit = console.visit, console'.pending = console.pending,
           console'.open => console.open, console'.starting => console.starting
    PROVE  Starting'
<1>1. ASSUME NEW w \in requests, Unheard(w) PROVE Unheard(w)' /\ w \in requests'
  BY <1>1 DEF Unheard
<1> QED
  BY <1>1 DEF Starting

LEMMA AskKeeps ==
    ASSUME ConsoleConstants, ConsoleInv, NEW k \in {"run", "clear"}, Console!Ask(k), console' \in Console0,
           console'.visit = console.visit,
           k = "clear" => console'.pending = console.pending /\ (console'.starting <=> console.starting)
                          /\ (console'.open <=> console.open),
           UNCHANGED <<processor, outcome, told, audited>>
    PROVE  ConsoleInv'
<1>1. Machines /\ Triggers /\ Said /\ Starting
  BY DEF ConsoleInv
<1>2. PICK q : q = [id |-> triggers + 1, kind |-> k, visit |-> console.visit, taken |-> FALSE, reply |-> None]
  OBVIOUS
<1>3. requests' = requests \cup {q} /\ triggers' = triggers + 1 /\ triggers < MaxAsks
  BY <1>2 DEF Console!Ask
<1>4. triggers \in Nat /\ triggers + 1 \in 1..MaxAsks /\ console.visit \in 1..MaxVisits /\ None \in Replies
  BY <1>1, <1>3 DEF Machines, Console0, ConsoleConstants, Replies
<1>5. q \in TriggerSet /\ q.id = triggers + 1 /\ q.kind = k /\ q.visit = console.visit /\ (q.taken <=> FALSE) /\ q.reply = None
  BY ONLY <1>2, <1>4, k \in {"run", "clear"} DEF TriggerSet
<1>6. Machines'
  BY <1>1, <1>3, <1>4 DEF Machines, ConsoleConstants
<1>7. \A p \in requests : p \in TriggerSet /\ p.id \in Nat /\ p.id <= triggers /\ Answered(outcome[p.id], p)
  BY <1>1 DEF Triggers, TriggerSet
<1>8. \A p \in requests : p.id # q.id
  BY <1>4, <1>5, <1>7
<1>9. Triggers'
  <2>1. Answered(outcome[q.id], q)
    BY <1>5 DEF Answered, ConsoleConstants
  <2>2. \A p \in requests' : p \in TriggerSet /\ p.id <= triggers' /\ Answered(outcome'[p.id], p)
    BY <1>3, <1>4, <1>5, <1>7, <2>1
  <2>3. \A p, s \in requests' : p.id = s.id => p = s
    <3>1. \A p, s \in requests : p.id = s.id => p = s
      BY <1>1 DEF Triggers
    <3> QED
      BY <1>3, <1>8, <3>1
  <2> QED
    BY <2>2, <2>3 DEF Triggers
<1>10. \A t \in told : t \in Saying /\ t.id \in Nat /\ t.id <= triggers /\ t.id # q.id /\ IsSo(outcome[t.id], t)
  <2>1. \A t \in told : t \in Saying /\ t.id \in Nat /\ t.id <= triggers /\ IsSo(outcome[t.id], t)
    BY <1>1 DEF Said, Saying
  <2> QED
    BY <1>4, <1>5, <2>1
<1>11. Said'
  <2>1. \A t \in told : \A p \in requests' : t.id = p.id => t.what = "failed"
    BY <1>1, <1>3, <1>10 DEF Said
  <2>2. audited \subseteq 1..MaxAsks /\ \A i \in audited : i \in Nat /\ i <= triggers /\ outcome[i] = "accepted"
    BY <1>1 DEF Said
  <2>3. q.id \notin audited
    BY <1>4, <1>5, <2>2
  <2>4. \A p \in requests' : p.id \in audited => p.kind = "run" /\ p.taken
    BY <1>1, <1>3, <2>3 DEF Said
  <2>5. \A t \in told : t.id <= triggers'
    BY <1>3, <1>4, <1>10
  <2>6. \A i \in audited : i <= triggers'
    BY <1>3, <1>4, <2>2
  <2> QED
    BY <1>10, <2>1, <2>2, <2>4, <2>5, <2>6 DEF Said
<1>12. Starting'
  <2>1. CASE k = "run"
    <3>1. Unheard(q)' /\ q \in requests'
      BY <1>3, <1>5, <1>10, <2>1 DEF Unheard
    <3> QED
      BY <3>1 DEF Starting
  <2>2. CASE k = "clear"
    <3>1. ASSUME NEW w \in requests, Unheard(w) PROVE Unheard(w)' /\ w \in requests'
      BY <1>3, <3>1 DEF Unheard
    <3> QED
      BY <1>1, <2>2, <3>1 DEF Starting
  <2> QED
    BY <2>1, <2>2
<1> QED
  BY <1>6, <1>9, <1>11, <1>12 DEF ConsoleInv

LEMMA HearKeeps == ASSUME ConsoleConstants, ConsoleInv, NEW r \in requests, Console!Hear(r) PROVE ConsoleInv'
<1>1. Machines /\ Triggers /\ Said /\ Starting
  BY DEF ConsoleInv
<1>2. r \in TriggerSet /\ r.id \in 1..MaxAsks /\ r.id <= triggers /\ Answered(outcome[r.id], r) /\ r.kind \in {"run", "clear"}
  BY <1>1 DEF Triggers, TriggerSet
<1>3. r.reply # None /\ (\A t \in told : t.id # r.id) /\ console.visit = r.visit
  BY DEF Console!Hear, Console!Heard
<1>4. PICK w \in {"started", "running", "cleared", "failed"} :
        /\ w = Console!What(r.reply) /\ (w = "started" => r.reply = 202) /\ (w = "running" => r.reply = 409)
        /\ (w = "cleared" => r.reply = 200) /\ (r.reply = 500 => w = "failed")
  BY DEF Console!What
<1>5. PICK u : u = [id |-> r.id, what |-> w]
  OBVIOUS
<1>6. told' = told \cup {u} /\ u \in Saying /\ u.id = r.id /\ u.what = w
  BY <1>2, <1>4, <1>5 DEF Console!Hear, Saying
<1>7. requests' \subseteq requests /\ (\A p \in requests : p # r => p \in requests')
      /\ (r \in requests' => r.kind = "run" /\ ~r.taken)
  BY DEF Console!Hear
<1>8. UNCHANGED <<processor, outcome, triggers, audited>>
  BY DEF Console!Hear
<1>9. \A p \in requests : p.id = r.id => p = r
  BY <1>1 DEF Triggers
<1>10. Triggers'
  BY <1>1, <1>7, <1>8 DEF Triggers
<1>11. Said'
  <2>1. IsSo(outcome[r.id], u)
    BY <1>2, <1>3, <1>4, <1>6 DEF IsSo, Answered, ConsoleConstants
  <2>2. r \in requests' => w = "failed"
    BY <1>2, <1>3, <1>4, <1>7 DEF Answered
  <2>3. \A t \in told' : \A p \in requests' : t.id = p.id => t.what = "failed"
    <3>1. \A p \in requests' : u.id = p.id => p = r
      BY <1>6, <1>7, <1>9
    <3> QED
      BY <1>1, <1>6, <1>7, <2>2, <3>1 DEF Said
  <2>4. \A t \in told' : t \in Saying /\ t.id <= triggers /\ IsSo(outcome[t.id], t)
    <3>1. \A t \in told : t \in Saying /\ t.id <= triggers /\ IsSo(outcome[t.id], t)
      BY <1>1 DEF Said
    <3> QED
      BY <1>2, <1>6, <2>1, <3>1
  <2>5. \A p \in requests' : p.id \in audited => p.kind = "run" /\ p.taken
    BY <1>1, <1>7 DEF Said
  <2> QED
    BY <1>1, <1>8, <2>3, <2>4, <2>5 DEF Said
<1>12. PICK f \in {None, "asked", "reading"} : f = (IF w = "failed" THEN None ELSE "reading")
  OBVIOUS
<1>13. PICK b \in BOOLEAN : b = (console.starting /\ ~(r.kind = "run" /\ w = "failed"))
  BY Zenon
<1>14. PICK c \in BOOLEAN : c = (console.forbidden \/ r.reply = 403)
  BY Zenon
<1>15. console' = [console EXCEPT ![Console!Field(r)] = f, !.starting = b, !.forbidden = c]
  BY <1>4, <1>12, <1>13, <1>14 DEF Console!Hear
<1>16. console \in Console0
  BY <1>1 DEF Machines
<1>17. PICK d : d = [console EXCEPT ![Console!Field(r)] = f]
  OBVIOUS
<1>18. d \in Console0 /\ (r.kind = "run" => d.pending = f) /\ (r.kind = "clear" => d.pending = console.pending)
       /\ d.visit = console.visit
  <2>1. CASE r.kind = "run"
    <3>1. d = [console EXCEPT !.pending = f]
      BY <1>17, <2>1 DEF Console!Field
    <3>2. r.kind # "clear"
      BY <2>1
    <3>3. d \in Console0 /\ d.pending = f /\ d.visit = console.visit
      BY ONLY <1>12, <1>16, <3>1 DEF Console0
    <3> QED
      BY <3>2, <3>3
  <2>2. CASE r.kind = "clear"
    <3>1. d = [console EXCEPT !.clearing = f]
      BY <1>17, <2>2 DEF Console!Field
    <3>2. r.kind # "run"
      BY <2>2
    <3>3. d \in Console0 /\ d.pending = console.pending /\ d.visit = console.visit
      BY ONLY <1>12, <1>16, <3>1 DEF Console0
    <3> QED
      BY <3>2, <3>3
  <2> QED
    BY <1>2, <2>1, <2>2
<1>19. console' = [d EXCEPT !.starting = b, !.forbidden = c]
  BY <1>15, <1>17
<1>20. console' \in Console0 /\ (console'.starting <=> b) /\ console'.pending = d.pending /\ console'.visit = d.visit
  <2>1. d \in Console0
    BY <1>18
  <2>2. b \in BOOLEAN
    BY <1>13
  <2>3. c \in BOOLEAN
    BY <1>14
  <2> QED
    BY ONLY <1>19, <2>1, <2>2, <2>3 DEF Console0
<1>21. Machines'
  BY <1>1, <1>8, <1>20 DEF Machines
<1>22. Starting'
  <2>1. SUFFICES ASSUME console'.starting PROVE (console'.pending = "reading" \/ \E p \in requests' : Unheard(p)')
    BY DEF Starting
  <2>2. console.starting /\ ~(r.kind = "run" /\ w = "failed")
    BY <1>13, <1>20, <2>1
  <2>3. CASE r.kind = "run"
    BY <1>12, <1>18, <1>20, <2>2, <2>3
  <2>4. CASE r.kind = "clear"
    <3>1. console.open
      BY DEF Console!Hear
    <3>2. CASE console.pending = "reading"
      BY <1>18, <1>20, <2>4, <3>2
    <3>3. CASE \E p \in requests : Unheard(p)
      <4>1. PICK p \in requests : Unheard(p)
        BY <3>3
      <4>2. p # r /\ p.id # r.id
        BY <1>9, <2>4, <4>1 DEF Unheard
      <4>3. p \in requests' /\ Unheard(p)'
        BY <1>6, <1>7, <1>18, <1>20, <4>1, <4>2 DEF Unheard
      <4> QED
        BY <4>3
    <3> QED
      BY <1>1, <2>2, <3>1, <3>2, <3>3 DEF Starting
  <2> QED
    BY <1>2, <2>3, <2>4
<1> QED
  BY <1>10, <1>11, <1>21, <1>22 DEF ConsoleInv

LEMMA ConsoleStep == ASSUME ConsoleConstants, ConsoleInv, Console!CNext \/ UNCHANGED Console!cvars PROVE ConsoleInv'
<1>1. Machines /\ Triggers /\ Said /\ Starting
  BY DEF ConsoleInv
<1>2. processor \in Processor /\ console \in Console0
  BY <1>1 DEF Machines
<1>3. CASE Console!Open
  <2>1. console' = [visit |-> console.visit + 1, open |-> TRUE, active |-> None, pending |-> None, starting |-> FALSE,
                    clearing |-> None, forbidden |-> FALSE]
    BY <1>3 DEF Console!Open, Console!Opened
  <2>2. console.visit + 1 \in 1..MaxVisits
    BY <1>2, <1>3 DEF Console!Open, Console0, ConsoleConstants
  <2>3. console' \in Console0 /\ ~console'.starting
    BY ONLY <2>1, <2>2 DEF Console0
  <2>4. Starting'
    BY <2>3 DEF Starting
  <2> QED
    BY <1>2, <1>3, <2>3, <2>4, PageKeeps DEF Console!Open
<1>4. CASE Console!Leave
  <2>1. console' = [console EXCEPT !.open = FALSE]
    BY <1>4 DEF Console!Leave
  <2>2. console' \in Console0 /\ ~console'.open
    BY ONLY <1>2, <2>1 DEF Console0
  <2>3. Starting'
    BY <2>2 DEF Starting
  <2> QED
    BY <1>2, <1>4, <2>2, <2>3, PageKeeps DEF Console!Leave
<1>5. CASE Console!Read
  <2>1. PICK b \in BOOLEAN : console' = [console EXCEPT !.active = b]
    BY <1>2, <1>5 DEF Console!Read, Processor
  <2>2. b \in BOOLEAN \cup {None}
    BY <2>1
  <2>3. /\ console' \in Console0 /\ console'.visit = console.visit /\ console'.pending = console.pending
        /\ (console'.open <=> console.open) /\ (console'.starting <=> console.starting)
    BY ONLY <1>2, <2>1, <2>2 DEF Console0
  <2>4. Starting'
    BY <1>1, <1>5, <2>3, WaitKeeps DEF Console!Read
  <2> QED
    BY <1>2, <1>5, <2>3, <2>4, PageKeeps DEF Console!Read
<1>6. CASE Console!RunScraper
  <2>1. console' = [console EXCEPT !.pending = "asked", !.starting = TRUE]
    BY <1>6 DEF Console!RunScraper
  <2>2. console' \in Console0 /\ console'.visit = console.visit
    BY ONLY <1>2, <2>1 DEF Console0
  <2> QED
    BY <1>6, <2>2, AskKeeps DEF Console!RunScraper
<1>7. CASE Console!ClearJobsCache
  <2>1. console' = [console EXCEPT !.clearing = "asked"]
    BY <1>7 DEF Console!ClearJobsCache
  <2>2. /\ console' \in Console0 /\ console'.visit = console.visit /\ console'.pending = console.pending
        /\ (console'.open <=> console.open) /\ (console'.starting <=> console.starting)
    BY ONLY <1>2, <2>1 DEF Console0
  <2> QED
    BY <1>7, <2>2, AskKeeps DEF Console!ClearJobsCache
<1>8. ASSUME processor' \in Processor, UNCHANGED <<outcome, console, requests, triggers, told, audited>> PROVE ConsoleInv'
  <2>1. Starting'
    BY <1>1, <1>8, WaitKeeps
  <2> QED
    BY <1>2, <1>8, <2>1, PageKeeps
<1>9. CASE Console!RunEnds
  <2>1. processor' = [processor EXCEPT !.running = FALSE]
    BY <1>9 DEF Console!RunEnds
  <2>2. processor' \in Processor
    BY ONLY <1>2, <2>1 DEF Processor
  <2> QED
    BY <1>8, <1>9, <2>2 DEF Console!RunEnds
<1>10. CASE Console!Tick
  <2>1. processor.ticks + 1 \in 0..MaxTicks
    BY <1>2, <1>10 DEF Console!Tick, Processor, ConsoleConstants
  <2>2. CASE processor' = [processor EXCEPT !.running = TRUE, !.ticks = @ + 1]
    <3>1. processor' \in Processor
      BY ONLY <1>2, <2>1, <2>2 DEF Processor
    <3> QED
      BY <1>8, <1>10, <3>1 DEF Console!Tick
  <2>3. CASE processor' = [processor EXCEPT !.lock = ~@, !.ticks = @ + 1]
    <3>1. PICK b \in BOOLEAN : b = ~processor.lock
      BY Zenon
    <3>2. processor' = [processor EXCEPT !.lock = b, !.ticks = @ + 1]
      BY <2>3, <3>1
    <3>3. processor' \in Processor
      BY ONLY <1>2, <2>1, <3>1, <3>2 DEF Processor
    <3> QED
      BY <1>8, <1>10, <3>3 DEF Console!Tick
  <2> QED
    BY <1>10, <2>2, <2>3 DEF Console!Tick
<1>11. CASE \E r \in requests : Console!Take(r) \/ Console!Answer(r) \/ Console!GiveUp(r) \/ Console!Clear(r) \/ Console!Hear(r)
  <2>1. PICK r \in requests : Console!Take(r) \/ Console!Answer(r) \/ Console!GiveUp(r) \/ Console!Clear(r) \/ Console!Hear(r)
    BY <1>11
  <2> QED
    BY <2>1, TakeKeeps, VerdictKeeps, HearKeeps
<1>12. ASSUME NEW g \in {"pending", "clearing"}, Console!Reread(g) PROVE ConsoleInv'
  <2>1. PICK a \in BOOLEAN : a = processor.running
    BY <1>2 DEF Processor
  <2>2. PICK b \in BOOLEAN : b = (console.starting /\ g # "pending")
    BY Zenon
  <2>3. console' = [console EXCEPT ![g] = None, !.active = a, !.starting = b]
    BY <1>12, <2>1, <2>2 DEF Console!Reread
  <2>4. a \in BOOLEAN \cup {None}
    BY <2>1
  <2>5. PICK d : d = [console EXCEPT ![g] = None]
    OBVIOUS
  <2>6. d \in Console0 /\ (g = "clearing" => d.pending = console.pending) /\ d.visit = console.visit /\ (d.open <=> console.open)
    <3>1. CASE g = "pending"
      <4>1. d = [console EXCEPT !.pending = None]
        BY <2>5, <3>1
      <4>2. g # "clearing"
        BY <3>1
      <4>3. d \in Console0 /\ d.visit = console.visit /\ (d.open <=> console.open)
        BY ONLY <1>2, <4>1 DEF Console0
      <4> QED
        BY <4>2, <4>3
    <3>2. CASE g = "clearing"
      <4>1. d = [console EXCEPT !.clearing = None]
        BY <2>5, <3>2
      <4>2. d \in Console0 /\ d.pending = console.pending /\ d.visit = console.visit /\ (d.open <=> console.open)
        BY ONLY <1>2, <4>1 DEF Console0
      <4> QED
        BY <4>2
    <3> QED
      BY <1>12, <3>1, <3>2
  <2>7. console' = [d EXCEPT !.active = a, !.starting = b]
    BY <2>3, <2>5
  <2>8. /\ console' \in Console0 /\ console'.visit = d.visit /\ console'.pending = d.pending
        /\ (console'.open <=> d.open) /\ (console'.starting <=> b)
    <3>1. d \in Console0
      BY <2>6
    <3>2. b \in BOOLEAN
      BY <2>2
    <3> QED
      BY ONLY <2>4, <2>7, <3>1, <3>2 DEF Console0
  <2>9. Starting'
    <3>1. CASE g = "pending"
      <4>1. ~console'.starting
        BY <2>2, <2>8, <3>1
      <4> QED
        BY <4>1 DEF Starting
    <3>2. CASE g = "clearing"
      <4>1. console'.starting => console.starting
        BY <2>2, <2>8
      <4>2. UNCHANGED <<requests, told>>
        BY <1>12 DEF Console!Reread
      <4> QED
        BY <1>1, <2>6, <2>8, <3>2, <4>1, <4>2, WaitKeeps
    <3> QED
      BY <1>12, <3>1, <3>2
  <2> QED
    BY <1>2, <1>12, <2>8, <2>9, PageKeeps DEF Console!Reread
<1>13. CASE UNCHANGED Console!cvars
  BY <1>2, <1>8, <1>13 DEF Console!cvars
<1> QED
  BY <1>3, <1>4, <1>5, <1>6, <1>7, <1>9, <1>10, <1>11, <1>12, <1>13 DEF Console!CNext

LEMMA ConsoleIsTrue ==
    ASSUME ConsoleConstants, ConsoleInv PROVE Console!CTypeOK /\ Console!ToldIsTrue /\ Console!StartIsFreed
<1>1. Machines /\ Triggers /\ Said /\ Starting
  BY DEF ConsoleInv
<1>2. Console!CTypeOK
  BY <1>1 DEF Console!CTypeOK, Machines, Triggers, Said, Processor, Console0, Replies, TriggerSet, Saying, Console!RequestIds
<1>3. Console!ToldIsTrue
  BY <1>1 DEF Console!ToldIsTrue, Said, IsSo
<1>4. Console!StartIsFreed
  <2>1. \A w : Unheard(w) => w.kind = "run" /\ w.visit = console.visit /\ w.id \notin Console!Heard
    BY DEF Unheard, Console!Heard
  <2> QED
    BY <1>1, <2>1 DEF Console!StartIsFreed, Starting
<1> QED
  BY <1>2, <1>3, <1>4

-----------------------------------------------------------------------------
(* AuditTrail *)

AuditConstants == Limit \in Nat \ {0} /\ MaxRows \in Nat /\ MaxLoads \in Nat /\ "audit.read" \in Actions

LEMMA Quotient == ASSUME NEW a \in Nat, NEW d \in Nat \ {0} PROVE a \div d \in Nat /\ d * (a \div d) <= a /\ a < d * (a \div d) + d
OBVIOUS

LEMMA NextMultiple == ASSUME NEW q \in Nat, NEW n \in Nat, NEW d \in Nat \ {0}, q < n PROVE d * q + d <= d * n
OBVIOUS

LEMMA QuotientIsLeast == ASSUME NEW a \in Nat, NEW q \in Nat, NEW d \in Nat \ {0}, d * q <= a PROVE q <= a \div d
<1>1. PICK p \in Nat : p = a \div d /\ a < d * p + d
  BY Quotient
<1>2. p < q => d * p + d <= d * q
  BY NextMultiple
<1> QED
  BY <1>1, <1>2

LEMMA QuotientIsMost == ASSUME NEW a \in Nat, NEW q \in Nat, NEW d \in Nat \ {0}, a < d * q + d PROVE a \div d <= q
<1>1. PICK p \in Nat : p = a \div d /\ d * p <= a
  BY Quotient
<1>2. q < p => d * q + d <= d * p
  BY NextMultiple
<1> QED
  BY <1>1, <1>2

\* How many of a sequence are kept, and that no more of it can make them fewer.
Kept(s, S) == {i \in DOMAIN s : s[i] \in S}

LEMMA OnlyCounts ==
    ASSUME NEW U, NEW s \in Seq(U), NEW S
    PROVE  Only(s, S) \in Seq(S) /\ Len(Only(s, S)) = Cardinality(Kept(s, S)) /\ IsFiniteSet(Kept(s, S))
<1>1. PICK n \in Nat : n = Len(s) /\ DOMAIN s = 1..n
  OBVIOUS
<1>2. PICK K : K = Kept(s, S)
  OBVIOUS
<1>3. K \subseteq Nat \ {0} /\ IsFiniteSet(K)
  <2>1. K \subseteq 1..n
    BY <1>1, <1>2 DEF Kept
  <2>2. IsFiniteSet(K)
    BY ONLY <2>1, FirstNumbers, FS_Subset, n \in Nat
  <2> QED
    BY <2>1, <2>2
<1>4. PICK g : g = Ascending(K)
  OBVIOUS
<1>5. IsAscending(g, K)
  BY ONLY <1>3, <1>4, AscendingLists
<1>6. PICK m \in Nat : m = Cardinality(K) /\ DOMAIN g = 1..m /\ \A k \in 1..m : g[k] \in K
  BY <1>5 DEF IsAscending
<1>7. PICK p : p = Only(s, S)
  OBVIOUS
<1>8. p = [k \in 1..m |-> s[g[k]]]
  BY <1>2, <1>4, <1>6, <1>7 DEF Only, Kept
<1>9. p \in [1..m -> S]
  <2>1. \A k \in 1..m : s[g[k]] \in S
    BY <1>2, <1>6 DEF Kept
  <2> QED
    BY ONLY <1>8, <2>1
<1>10. p \in Seq(S) /\ Len(p) = m
  BY ONLY <1>9, m \in Nat
<1> QED
  BY <1>2, <1>3, <1>6, <1>7, <1>10

LEMMA KeptGrows ==
    ASSUME NEW U, NEW s \in Seq(U), NEW u \in U, NEW S
    PROVE  Cardinality(Kept(s, S)) <= Cardinality(Kept(Append(s, u), S))
<1>1. PICK n \in Nat : n = Len(s) /\ DOMAIN s = 1..n /\ \A i \in 1..n : s[i] \in U
  OBVIOUS
<1>2. PICK t \in Seq(U) : t = Append(s, u) /\ Len(t) = n + 1 /\ \A i \in 1..n : t[i] = s[i]
  <2>1. Append(s, u) \in Seq(U)
    OBVIOUS
  <2>2. Len(Append(s, u)) = n + 1 /\ \A i \in 1..n : Append(s, u)[i] = s[i]
    BY <1>1
  <2> QED
    BY <2>1, <2>2
<1>3. Kept(s, S) \subseteq Kept(t, S)
  <2>1. DOMAIN t = 1..(n + 1)
    BY <1>1, <1>2
  <2> QED
    BY <1>1, <1>2, <2>1 DEF Kept
<1>4. IsFiniteSet(Kept(t, S))
  BY OnlyCounts
<1> QED
  BY <1>2, <1>3, <1>4, FS_Subset

LEMMA BackwardsKeeps == ASSUME NEW U, NEW s \in Seq(U) PROVE Backwards(s) \in Seq(U) /\ Len(Backwards(s)) = Len(s)
<1>1. PICK n \in Nat : n = Len(s) /\ DOMAIN s = 1..n /\ \A i \in 1..n : s[i] \in U
  OBVIOUS
<1>2. PICK b : b = Backwards(s)
  OBVIOUS
<1>3. b = [k \in 1..n |-> s[n + 1 - k]]
  BY <1>1, <1>2 DEF Backwards
<1>4. \A k \in 1..n : s[n + 1 - k] \in U
  BY <1>1
<1>5. b \in [1..n -> U]
  BY ONLY <1>3, <1>4
<1>6. b \in Seq(U) /\ Len(b) = n
  BY ONLY <1>5, n \in Nat
<1> QED
  BY <1>1, <1>2, <1>6

LEMMA PieceIsSeq ==
    ASSUME NEW U, NEW s \in Seq(U), NEW a \in Nat, NEW b \in Nat, b <= Len(s) PROVE SubSeq(s, a + 1, b) \in Seq(U)
OBVIOUS

LEMMA TakenOutIsSeq ==
    ASSUME NEW U, NEW s \in Seq(U), NEW i \in DOMAIN s PROVE TakenOut(s, i) \in Seq(U) /\ Len(TakenOut(s, i)) = Len(s) - 1
<1>1. PICK n \in Nat : n = Len(s) /\ DOMAIN s = 1..n /\ \A k \in 1..n : s[k] \in U
  OBVIOUS
<1>2. PICK b : b = TakenOut(s, i)
  OBVIOUS
<1>3. PICK m \in Nat : m = n - 1
  BY <1>1
<1>4. b = [k \in 1..m |-> s[IF k < i THEN k ELSE k + 1]]
  BY <1>1, <1>2, <1>3 DEF TakenOut
<1>5. \A k \in 1..m : s[IF k < i THEN k ELSE k + 1] \in U
  BY <1>1, <1>3
<1>6. b \in [1..m -> U]
  BY ONLY <1>4, <1>5
<1>7. b \in Seq(U) /\ Len(b) = m
  BY ONLY <1>6, m \in Nat
<1> QED
  BY <1>1, <1>2, <1>3, <1>7

\* What a filter looks for, and how many rows of the trail it finds.
Sought(f) == IF f = "all" THEN Actions ELSE {f}
Found(t, f) == Cardinality(Kept(t, Sought(f)))
RowLists == Seq(Actions) \cup {None}
LoadSet == [id : 1..MaxLoads, filter : Audit!MenuItems, offset : Nat, rows : RowLists, total : Nat \cup {None}]
LogLists == [filter : Audit!MenuItems, offset : Nat, rows : RowLists, total : Nat]

\* A page begins at a multiple of what is on one, at a row there is unless it is the first.
Begins(o, n) == o \in Nat /\ (\E k \in Nat : o = Limit * k) /\ (o = 0 \/ o < n)

\* The answer to a load: rows that match, and a number of them that was right.
Counted(l, n) ==
    /\ Begins(l.offset, n)
    /\ l.rows # None => l.rows \in Seq(Sought(l.filter))
    /\ l.total # None => l.total <= n /\ (l.offset = 0 \/ l.offset < l.total)

Trail == trail \in Seq(Actions) /\ writing \in Seq(Actions) /\ Len(trail) + Len(writing) <= MaxRows
Wanted ==
    /\ filter \in Audit!MenuItems /\ asked \in 0..MaxLoads /\ loading \in BOOLEAN /\ error \in BOOLEAN
    /\ Begins(offset, Found(trail, filter))
    /\ asked = 0 => loading
Loads == \A l \in loads : /\ l \in LoadSet /\ l.id <= asked /\ Counted(l, Found(trail, l.filter))
                          /\ l.id = asked => l.filter = filter /\ l.offset = offset
Settled(l, n) ==
    l.rows \in Seq(Sought(l.filter)) /\ l.total \in Nat /\ l.total <= n /\ (l.offset = 0 \/ l.offset < l.total)
Listing0 ==
    /\ listed \in LogLists
    /\ ~loading /\ ~error => listed.filter = filter /\ listed.offset = offset /\ Settled(listed, Found(trail, filter))
AuditInv == Trail /\ Wanted /\ Loads /\ Listing0

LEMMA AuditOnly == ASSUME NEW s, NEW S PROVE Audit!Only(s, S) = Only(s, S)
BY Zenon DEF Audit!Only, Audit!Ascending, Audit!InOrder, Audit!Less, Audit!Cardinality, Only, Ascending, InOrder, Less, Cardinality

LEMMA MatchingIs ==
    ASSUME Trail, NEW f
    PROVE  Audit!Matching(f) \in Seq(Sought(f)) /\ Len(Audit!Matching(f)) = Found(trail, f) /\ Found(trail, f) \in Nat
<1>1. trail \in Seq(Actions)
  BY DEF Trail
<1>2. PICK p : p = Only(trail, Sought(f))
  OBVIOUS
<1>3. p \in Seq(Sought(f)) /\ Len(p) = Found(trail, f) /\ Found(trail, f) \in Nat
  BY <1>1, <1>2, OnlyCounts, FS_CardinalityType DEF Found
<1>4. Backwards(p) \in Seq(Sought(f)) /\ Len(Backwards(p)) = Found(trail, f)
  BY <1>3, BackwardsKeeps
<1>5. Audit!Matching(f) = Backwards(p)
  <2>1. Audit!Only(trail, Sought(f)) = p
    BY <1>2, AuditOnly
  <2>2. Audit!Matching(f) = Audit!Backwards(p)
    BY <2>1 DEF Audit!Matching, Sought
  <2> QED
    BY <2>2 DEF Audit!Backwards, Backwards
<1> QED
  BY <1>3, <1>4, <1>5

LEMMA FoundIsNumber == ASSUME NEW t \in Seq(Actions), NEW f PROVE Found(t, f) \in Nat
BY OnlyCounts, FS_CardinalityType DEF Found

LEMMA SoughtIsAction == ASSUME NEW f \in Audit!MenuItems, f # "invalid" PROVE Seq(Sought(f)) \subseteq Seq(Actions)
<1>1. Sought(f) \subseteq Actions
  BY DEF Sought, Audit!MenuItems
<1>2. PICK S : S = Sought(f)
  OBVIOUS
<1>3. Seq(S) \subseteq Seq(Actions)
  BY ONLY <1>1, <1>2
<1> QED
  BY <1>2, <1>3

LEMMA CountedStill ==
    ASSUME NEW l, NEW n \in Nat, NEW m \in Nat, n <= m, Counted(l, n), l.total \in Nat \cup {None}
    PROVE  Counted(l, m)
<1>1. Begins(l.offset, m)
  BY DEF Counted, Begins
<1>2. l.total # None => l.total <= m /\ (l.offset = 0 \/ l.offset < l.total)
  BY DEF Counted
<1> QED
  BY <1>1, <1>2 DEF Counted

LEMMA BeginsStill == ASSUME NEW o, NEW n \in Nat, NEW m \in Nat, n <= m, Begins(o, n) PROVE Begins(o, m)
BY DEF Begins

\* Only the trail changes, and it grows.
LEMMA TrailKeeps ==
    ASSUME AuditInv, Trail', \A f : Found(trail, f) <= Found(trail', f),
           UNCHANGED <<filter, offset, loads, asked, listed, loading, error>>
    PROVE  AuditInv'
<1>1. Trail /\ Wanted /\ Loads /\ Listing0
  BY DEF AuditInv
<1>2. \A f : Found(trail, f) \in Nat /\ Found(trail', f) \in Nat
  BY <1>1, FoundIsNumber DEF Trail
<1>3. Wanted'
  <2>1. Begins(offset, Found(trail', filter))
    BY <1>1, <1>2, BeginsStill DEF Wanted
  <2> QED
    BY <1>1, <2>1 DEF Wanted
<1>4. Loads'
  <2>1. ASSUME NEW l \in loads PROVE Counted(l, Found(trail', l.filter))
    <3>1. l \in LoadSet /\ Counted(l, Found(trail, l.filter))
      BY <1>1 DEF Loads
    <3>2. l.total \in Nat \cup {None}
      BY <3>1 DEF LoadSet
    <3> QED
      BY <1>2, <3>1, <3>2, CountedStill
  <2> QED
    BY <1>1, <2>1 DEF Loads
<1>5. Listing0'
  <2>1. ~loading /\ ~error => Settled(listed, Found(trail', filter))
    BY <1>1, <1>2 DEF Listing0, Settled
  <2> QED
    BY <1>1, <2>1 DEF Listing0
<1> QED
  BY <1>3, <1>4, <1>5 DEF AuditInv

LEMMA WriteKeeps ==
    ASSUME AuditConstants, AuditInv, (\E a \in Actions : Audit!Done(a)) \/ (\E i \in DOMAIN writing : Audit!Write(i)) PROVE AuditInv'
<1>1. Trail /\ trail \in Seq(Actions) /\ writing \in Seq(Actions) /\ Len(trail) \in Nat /\ Len(writing) \in Nat
      /\ Len(trail) + Len(writing) <= MaxRows
  BY DEF AuditInv, Trail
<1>2. ASSUME NEW a \in Actions, Audit!Done(a) PROVE AuditInv'
  <2>1. trail' = trail /\ writing' = Append(writing, a) /\ Len(trail) + Len(writing) < MaxRows
        /\ UNCHANGED <<filter, offset, loads, asked, listed, loading, error>>
    BY <1>2 DEF Audit!Done, Audit!Audited, Audit!wanted, Audit!shown
  <2>2. writing' \in Seq(Actions) /\ Len(writing') = Len(writing) + 1
    BY <1>1, <2>1
  <2>3. Trail'
    BY <1>1, <2>1, <2>2 DEF Trail, AuditConstants
  <2>4. \A f : Found(trail, f) <= Found(trail', f)
    BY <1>1, <2>1, FoundIsNumber
  <2> QED
    BY <2>1, <2>3, <2>4, TrailKeeps
<1>3. ASSUME NEW i \in DOMAIN writing, Audit!Write(i) PROVE AuditInv'
  <2>1. /\ writing' = Audit!TakenOut(writing, i) /\ trail' \in {Append(trail, writing[i]), trail}
        /\ UNCHANGED <<filter, offset, loads, asked, listed, loading, error>>
    BY <1>3 DEF Audit!Write, Audit!wanted, Audit!shown
  <2>2. writing' \in Seq(Actions) /\ Len(writing') = Len(writing) - 1
    <3>1. writing' = TakenOut(writing, i)
      BY <2>1 DEF Audit!TakenOut, TakenOut
    <3> QED
      BY <1>1, <3>1, TakenOutIsSeq
  <2>3. PICK a \in Actions : a = writing[i]
    BY <1>1
  <2>4. trail' \in Seq(Actions) /\ Len(trail') <= Len(trail) + 1
    <3>1. Append(trail, a) \in Seq(Actions) /\ Len(Append(trail, a)) = Len(trail) + 1
      BY <1>1
    <3> QED
      BY <1>1, <2>1, <2>3, <3>1
  <2>5. Trail'
    <3>1. Len(trail') \in Nat
      BY <2>4
    <3> QED
      BY <1>1, <2>2, <2>4, <3>1 DEF Trail, AuditConstants
  <2>6. \A f : Found(trail, f) <= Found(trail', f)
    <3>1. \A f : Found(trail, f) <= Found(Append(trail, a), f)
      BY <1>1, KeptGrows DEF Found
    <3>2. \A f : Found(trail, f) \in Nat
      BY <1>1, FoundIsNumber
    <3>3. \A f : Found(trail, f) <= Found(trail, f)
      BY ONLY <3>2
    <3>4. trail' = trail \/ trail' = Append(trail, a)
      BY <2>1, <2>3
    <3> QED
      BY ONLY <3>1, <3>3, <3>4
  <2> QED
    BY <2>1, <2>5, <2>6, TrailKeeps
<1> QED
  BY <1>2, <1>3

\* An answer that is read, of the rows or of their number.
LEMMA ReadKeeps ==
    ASSUME AuditConstants, AuditInv, NEW l \in loads, NEW q \in LoadSet, loads' = (loads \ {l}) \cup {q},
           q.id = l.id, q.filter = l.filter, q.offset = l.offset, Counted(q, Found(trail, l.filter)),
           UNCHANGED <<trail, writing, filter, offset, asked, listed, loading, error>>
    PROVE  AuditInv'
<1>1. Trail /\ Wanted /\ Loads /\ Listing0
  BY DEF AuditInv
<1>2. Loads'
  BY <1>1 DEF Loads
<1>3. Trail' /\ Wanted' /\ Listing0'
  BY <1>1 DEF Trail, Wanted, Listing0
<1> QED
  BY <1>2, <1>3 DEF AuditInv

LEMMA ReadsKeep == ASSUME AuditConstants, AuditInv, NEW l \in loads, Audit!ReadRows(l) \/ Audit!CountRows(l) PROVE AuditInv'
<1>1. Trail /\ Wanted /\ Loads /\ Listing0
  BY DEF AuditInv
<1>2. l \in LoadSet /\ Counted(l, Found(trail, l.filter)) /\ l.filter \in Audit!MenuItems /\ l.offset \in Nat /\ l.total \in Nat \cup {None}
  BY <1>1 DEF Loads, LoadSet
<1>3. PICK n \in Nat : n = Found(trail, l.filter)
  BY <1>1, MatchingIs
<1>4. UNCHANGED <<trail, writing, filter, offset, asked, listed, loading, error>> /\ l.filter # "invalid"
  BY DEF Audit!ReadRows, Audit!CountRows, Audit!wanted, Audit!shown
<1>5. CASE Audit!ReadRows(l)
  <2>1. PICK s \in Seq(Sought(l.filter)) : s = Audit!Matching(l.filter)
    BY <1>1, MatchingIs
  <2>2. PICK b \in Nat : b = (IF l.offset + Limit > Len(s) THEN Len(s) ELSE l.offset + Limit) /\ b <= Len(s)
    BY <1>2 DEF AuditConstants
  <2>3. PICK p \in Seq(Sought(l.filter)) : p = Audit!PageOf(l.filter, l.offset)
    <3>1. SubSeq(s, l.offset + 1, b) \in Seq(Sought(l.filter))
      BY <1>2, <2>2, PieceIsSeq
    <3> QED
      BY <2>1, <2>2, <3>1 DEF Audit!PageOf
  <2>4. p \in RowLists
    BY <1>2, <1>4, SoughtIsAction DEF RowLists
  <2>5. PICK q : q = [l EXCEPT !.rows = p]
    OBVIOUS
  <2>6. q \in LoadSet /\ q.id = l.id /\ q.filter = l.filter /\ q.offset = l.offset /\ q.rows = p /\ q.total = l.total
    BY <1>2, <2>4, <2>5 DEF LoadSet
  <2>7. Counted(q, n)
    BY <1>2, <1>3, <2>6 DEF Counted
  <2>8. loads' = (loads \ {l}) \cup {q}
    BY <1>5, <2>3, <2>5 DEF Audit!ReadRows
  <2> QED
    BY <1>3, <1>4, <2>6, <2>7, <2>8, ReadKeeps
<1>6. CASE Audit!CountRows(l)
  <2>1. Len(Audit!Matching(l.filter)) = n
    BY <1>1, <1>3, MatchingIs
  <2>2. PICK q : q = [l EXCEPT !.total = n]
    OBVIOUS
  <2>3. q \in LoadSet /\ q.id = l.id /\ q.filter = l.filter /\ q.offset = l.offset /\ q.rows = l.rows /\ q.total = n
    BY <1>2, <2>2 DEF LoadSet
  <2>4. Counted(q, n)
    BY <1>2, <1>3, <2>3 DEF Counted, Begins
  <2>5. loads' = (loads \ {l}) \cup {q}
    BY <1>6, <2>1, <2>2 DEF Audit!CountRows
  <2> QED
    BY <1>3, <1>4, <2>3, <2>4, <2>5, ReadKeeps
<1> QED
  BY <1>5, <1>6

LEMMA AskedKeeps ==
    ASSUME AuditConstants, AuditInv, NEW f \in Audit!MenuItems, NEW o, Begins(o, Found(trail, f)), Audit!Ask(f, o)
    PROVE  AuditInv'
<1>1. Trail /\ Wanted /\ Loads /\ Listing0
  BY DEF AuditInv
<1>2. /\ asked' = asked + 1 /\ asked < MaxLoads /\ filter' = f /\ offset' = o /\ loading' = TRUE
      /\ UNCHANGED <<trail, writing, listed, error>>
  BY DEF Audit!Ask
<1>3. asked \in Nat /\ asked + 1 \in 1..MaxLoads /\ asked' \in 0..MaxLoads
  BY <1>1, <1>2 DEF Wanted, AuditConstants
<1>4. PICK q : q = [id |-> asked + 1, filter |-> f, offset |-> o, rows |-> None, total |-> None]
  OBVIOUS
<1>5. o \in Nat /\ None \in RowLists
  BY DEF Begins, RowLists
<1>6. q \in LoadSet /\ q.id = asked + 1 /\ q.filter = f /\ q.offset = o /\ q.rows = None /\ q.total = None
  BY <1>3, <1>4, <1>5 DEF LoadSet
<1>7. Counted(q, Found(trail, f))
  BY <1>6 DEF Counted
<1>8. loads' = loads \cup {q}
  BY <1>4 DEF Audit!Ask
<1>9. \A l \in loads : l \in LoadSet /\ l.id \in Nat /\ l.id <= asked /\ Counted(l, Found(trail, l.filter))
  BY <1>1 DEF Loads, LoadSet
<1>10. Loads'
  <2>1. ASSUME NEW l \in loads'
        PROVE  /\ l \in LoadSet /\ l.id <= asked' /\ Counted(l, Found(trail, l.filter))
               /\ l.id = asked' => l.filter = f /\ l.offset = o
    <3>1. CASE l = q
      BY <1>2, <1>3, <1>6, <1>7, <3>1
    <3>2. CASE l \in loads
      BY <1>2, <1>3, <1>9, <3>2
    <3> QED
      BY <1>8, <3>1, <3>2
  <2> QED
    BY <1>2, <2>1 DEF Loads
<1>11. Wanted'
  BY <1>1, <1>2, <1>3 DEF Wanted
<1>12. Trail' /\ Listing0'
  BY <1>1, <1>2 DEF Trail, Listing0
<1> QED
  BY <1>10, <1>11, <1>12 DEF AuditInv

LEMMA EndsKeep == ASSUME AuditConstants, AuditInv, NEW l \in loads, Audit!Loaded(l) \/ Audit!Failed(l) PROVE AuditInv'
<1>1. Trail /\ Wanted /\ Loads /\ Listing0
  BY DEF AuditInv
<1>2. l \in LoadSet /\ l.id \in 1..MaxLoads /\ l.id <= asked /\ Counted(l, Found(trail, l.filter)) /\ l.offset \in Nat
      /\ (l.id = asked => l.filter = filter /\ l.offset = offset)
  BY <1>1 DEF Loads, LoadSet
<1>3. loads' = loads \ {l} /\ UNCHANGED <<trail, filter, offset, asked>>
  BY DEF Audit!Loaded, Audit!Failed, Audit!wanted
<1>4. Trail'
  <2>1. CASE Audit!Loaded(l)
    <3>1. writing' = Append(writing, "audit.read") /\ Len(trail) + Len(writing) < MaxRows
      BY <2>1 DEF Audit!Loaded, Audit!Audited
    <3>2. writing' \in Seq(Actions) /\ Len(writing') = Len(writing) + 1
      BY <1>1, <3>1 DEF Trail, AuditConstants
    <3>3. Len(trail) \in Nat /\ Len(writing) \in Nat
      BY <1>1 DEF Trail
    <3> QED
      BY <1>1, <1>3, <3>1, <3>2, <3>3 DEF Trail, AuditConstants
  <2>2. CASE Audit!Failed(l)
    BY <1>1, <1>3, <2>2 DEF Audit!Failed, Trail
  <2> QED
    BY <2>1, <2>2
<1>5. Loads'
  BY <1>1, <1>3 DEF Loads
<1>6. CASE UNCHANGED <<listed, loading, error>>
  <2>1. Wanted' /\ Listing0'
    BY <1>1, <1>3, <1>6 DEF Wanted, Listing0
  <2> QED
    BY <1>4, <1>5, <2>1 DEF AuditInv
<1>7. CASE l.id = asked
  <2>1. asked # 0 /\ l.filter = filter /\ l.offset = offset
    BY <1>2, <1>7
  <2>2. loading' = FALSE /\ error' \in BOOLEAN
    BY <1>7 DEF Audit!Loaded, Audit!Failed, Audit!Active
  <2>3. Wanted'
    BY <1>1, <1>3, <2>1, <2>2 DEF Wanted
  <2>4. CASE Audit!Failed(l)
    <3>1. error' /\ listed' = listed
      BY <1>7, <2>4 DEF Audit!Failed, Audit!Active
    <3>2. Listing0'
      BY <1>1, <3>1 DEF Listing0
    <3> QED
      BY <1>4, <1>5, <2>3, <3>2 DEF AuditInv
  <2>5. CASE Audit!Loaded(l)
    <3>1. listed' = [filter |-> l.filter, offset |-> l.offset, rows |-> l.rows, total |-> l.total] /\ l.rows # None /\ l.total # None
      BY <1>7, <2>5 DEF Audit!Loaded, Audit!Active
    <3>2. l.filter \in Audit!MenuItems /\ l.offset \in Nat /\ l.rows \in RowLists /\ l.total \in Nat
      BY <1>2, <3>1 DEF LoadSet
    <3>3. listed' \in LogLists /\ listed'.filter = l.filter /\ listed'.offset = l.offset /\ listed'.rows = l.rows /\ listed'.total = l.total
      BY ONLY <3>1, <3>2 DEF LogLists
    <3>4. Settled(listed', Found(trail, filter))
      BY <1>2, <2>1, <3>1, <3>2, <3>3 DEF Settled, Counted
    <3>5. Listing0'
      BY <1>3, <2>1, <3>3, <3>4 DEF Listing0
    <3> QED
      BY <1>4, <1>5, <2>3, <3>5 DEF AuditInv
  <2> QED
    BY <2>4, <2>5
<1> QED
  BY <1>6, <1>7 DEF Audit!Loaded, Audit!Failed, Audit!Active, Audit!shown

\* The page after the one shown begins at a row there is.
LEMMA NextIsThere ==
    ASSUME AuditConstants, NEW o, NEW t \in Nat, NEW n \in Nat, t <= n, Begins(o, n),
           (o \div Limit) + 1 < (t + Limit - 1) \div Limit
    PROVE  Begins(o + Limit, n)
<1>1. Limit \in Nat \ {0} /\ o \in Nat
  BY DEF AuditConstants, Begins
<1>2. PICK k \in Nat : o = Limit * k
  BY DEF Begins
<1>3. PICK a \in Nat : a = t + Limit - 1
  BY <1>1
<1>4. o \div Limit = k
  <2>1. o \div Limit \in Nat
    BY <1>1, Quotient
  <2>2. k <= o \div Limit
    BY <1>1, <1>2, QuotientIsLeast
  <2>3. o < Limit * k + Limit
    BY <1>1, <1>2
  <2>4. o \div Limit <= k
    BY <1>1, <2>3, QuotientIsMost
  <2> QED
    BY ONLY <2>1, <2>2, <2>4, k \in Nat
<1>5. PICK p \in Nat : p = a \div Limit /\ Limit * p <= a
  BY <1>1, Quotient
<1>6. k + 1 < p
  BY <1>3, <1>4, <1>5
<1>7. Limit * (k + 1) + Limit <= Limit * p /\ k + 1 \in Nat
  BY <1>1, <1>6, NextMultiple
<1>8. Limit * (k + 1) = o + Limit
  BY <1>1, <1>2
<1>9. o + Limit < t
  <2>1. o + Limit + Limit <= t + Limit - 1
    <3>1. Limit * p \in Nat
      BY <1>1, <1>5
    <3> QED
      BY ONLY <1>1, <1>3, <1>5, <1>7, <1>8, <3>1, t \in Nat
  <2> QED
    BY ONLY <1>1, <2>1, t \in Nat
<1>10. PICK j \in Nat : o + Limit = Limit * j
  BY ONLY <1>7, <1>8
<1>11. o + Limit \in Nat /\ o + Limit < n
  BY <1>1, <1>9
<1> QED
  BY ONLY <1>10, <1>11, j \in Nat DEF Begins

LEMMA PreviousIsThere ==
    ASSUME AuditConstants, NEW o, NEW n \in Nat, Begins(o, n), o > 0 PROVE Begins(o - Limit, n)
<1>1. Limit \in Nat \ {0} /\ o \in Nat
  BY DEF AuditConstants, Begins
<1>2. PICK k \in Nat : o = Limit * k
  BY DEF Begins
<1>3. k # 0
  BY <1>1, <1>2
<1>4. PICK m \in Nat : m = k - 1
  BY <1>3
<1>5. Limit * m = o - Limit /\ Limit * m \in Nat
  BY <1>1, <1>2, <1>4
<1> QED
  BY <1>1, <1>5 DEF Begins

LEMMA AuditStep == ASSUME AuditConstants, AuditInv, Audit!ANext \/ UNCHANGED audit PROVE AuditInv'
<1>1. Trail /\ Wanted /\ Loads /\ Listing0
  BY DEF AuditInv
<1>2. \A f : Found(trail, f) \in Nat
  BY <1>1, MatchingIs
<1>3. filter \in Audit!MenuItems /\ Begins(offset, Found(trail, filter))
  BY <1>1 DEF Wanted
<1>4. \A f : Begins(0, Found(trail, f))
  <2>1. 0 = Limit * 0
    BY DEF AuditConstants
  <2> QED
    BY <2>1 DEF Begins
<1>5. CASE Audit!Open
  BY <1>4, <1>5, AskedKeeps DEF Audit!Open, Audit!MenuItems
<1>6. ASSUME NEW f \in Audit!MenuItems, Audit!ChooseFilter(f) PROVE AuditInv'
  BY <1>4, <1>6, AskedKeeps DEF Audit!ChooseFilter
<1>7. CASE Audit!NextPage
  <2>1. ~loading /\ ~error /\ Audit!CurrentPage < Audit!TotalPages /\ Audit!Ask(filter, offset + Limit)
    BY <1>7 DEF Audit!NextPage
  <2>2. listed.total \in Nat /\ listed.total <= Found(trail, filter)
    BY <1>1, <2>1 DEF Listing0, Settled
  <2>3. PICK n : n = (listed.total + Limit - 1) \div Limit
    OBVIOUS
  <2>4. (offset \div Limit) + 1 < n
    <3>1. offset \div Limit \in Nat
      BY <1>3, Quotient DEF Begins, AuditConstants
    <3>2. (offset \div Limit) + 1 < IF n = 0 THEN 1 ELSE n
      BY <2>1, <2>3 DEF Audit!CurrentPage, Audit!TotalPages
    <3> QED
      BY ONLY <3>1, <3>2
  <2>5. Begins(offset + Limit, Found(trail, filter))
    BY <1>2, <1>3, <2>2, <2>3, <2>4, NextIsThere
  <2> QED
    BY <1>3, <2>1, <2>5, AskedKeeps
<1>8. CASE Audit!PreviousPage
  <2>1. offset > 0 /\ Audit!Ask(filter, offset - Limit)
    BY <1>8 DEF Audit!PreviousPage
  <2>2. Begins(offset - Limit, Found(trail, filter))
    BY <1>2, <1>3, <2>1, PreviousIsThere
  <2> QED
    BY <1>3, <2>1, <2>2, AskedKeeps
<1>9. CASE UNCHANGED audit
  BY <1>1, <1>9 DEF audit, AuditInv, Trail, Wanted, Loads, Listing0
<1>10. ASSUME NEW l \in loads, Audit!ReadRows(l) \/ Audit!CountRows(l) \/ Audit!Loaded(l) \/ Audit!Failed(l) PROVE AuditInv'
  BY <1>10, ReadsKeep, EndsKeep
<1> QED
  BY <1>5, <1>6, <1>7, <1>8, <1>9, <1>10, WriteKeeps DEF Audit!ANext

LEMMA AuditStart == ASSUME AuditConstants, Audit!AInit PROVE AuditInv
<1>1. Trail
  <2>1. PICK n \in Nat : n <= MaxRows /\ trail \in [1..n -> Actions]
    BY DEF Audit!AInit, AuditConstants
  <2>2. trail \in Seq(Actions) /\ Len(trail) = n
    BY ONLY <2>1, n \in Nat
  <2>3. writing \in Seq(Actions) /\ Len(writing) = 0
    BY DEF Audit!AInit
  <2> QED
    BY <2>1, <2>2, <2>3 DEF Trail, AuditConstants
<1>2. Wanted
  <2>1. Limit * 0 = 0
    BY DEF AuditConstants
  <2>2. filter = "all" /\ offset = 0 /\ asked = 0 /\ loading = TRUE /\ error = FALSE /\ MaxLoads \in Nat
    BY DEF Audit!AInit, AuditConstants
  <2>3. \E k \in Nat : offset = Limit * k
    BY ONLY <2>1, <2>2
  <2>4. Begins(offset, Found(trail, filter))
    BY ONLY <2>2, <2>3 DEF Begins
  <2>5. filter \in Audit!MenuItems /\ asked \in 0..MaxLoads
    BY ONLY <2>2 DEF Audit!MenuItems
  <2>6. loading \in BOOLEAN /\ error \in BOOLEAN /\ (asked = 0 => loading)
    BY ONLY <2>2
  <2> QED
    BY ONLY <2>4, <2>5, <2>6 DEF Wanted
<1>3. Loads
  BY DEF Audit!AInit, Loads
<1>4. Listing0
  <2>1. << >> \in RowLists
    BY DEF RowLists
  <2> QED
    BY <2>1 DEF Audit!AInit, Listing0, LogLists, Audit!MenuItems
<1> QED
  BY <1>1, <1>2, <1>3, <1>4 DEF AuditInv

LEMMA AuditIsAsked == ASSUME AuditConstants, AuditInv PROVE Audit!ATypeOK /\ Audit!ListIsAsked
<1>1. Trail /\ Wanted /\ Loads /\ Listing0
  BY DEF AuditInv
<1>2. Audit!ATypeOK
  <2>1. Len(trail) <= MaxRows
    <3>1. Len(trail) \in Nat /\ Len(writing) \in Nat
      BY <1>1 DEF Trail
    <3> QED
      BY <1>1, <3>1 DEF Trail, AuditConstants
  <2>2. \A l \in loads : l.id \in 1..asked /\ l.filter \in Audit!MenuItems
    <3>1. asked \in Nat
      BY <1>1 DEF Wanted
    <3> QED
      BY <1>1, <3>1 DEF Loads, LoadSet
  <2> QED
    BY <1>1, <2>1, <2>2 DEF Audit!ATypeOK, Trail, Wanted, Begins, Listing0, LogLists
<1>3. ASSUME ~loading, ~error
      PROVE  /\ listed.filter = filter /\ listed.offset = offset
             /\ \A i \in DOMAIN listed.rows : filter \in {"all", listed.rows[i]}
             /\ Audit!CurrentPage <= Audit!TotalPages
  <2>1. listed.filter = filter /\ listed.offset = offset /\ listed.rows \in Seq(Sought(filter)) /\ listed.total \in Nat
        /\ (offset = 0 \/ offset < listed.total)
    BY <1>1, <1>3 DEF Listing0, Settled
  <2>2. \A i \in DOMAIN listed.rows : filter \in {"all", listed.rows[i]}
    <3>1. \A i \in DOMAIN listed.rows : listed.rows[i] \in Sought(filter)
      BY <2>1
    <3> QED
      BY <3>1 DEF Sought
  <2>3. Limit \in Nat \ {0} /\ offset \in Nat
    BY <1>1 DEF AuditConstants, Wanted, Begins
  <2>4. PICK k \in Nat : offset = Limit * k
    BY <1>1 DEF Wanted, Begins
  <2>5. PICK p \in Nat : p = offset \div Limit /\ p <= k
    <3>1. offset < Limit * k + Limit
      BY <2>3, <2>4
    <3> QED
      BY <2>3, <3>1, Quotient, QuotientIsMost
  <2>6. PICK a \in Nat : a = listed.total + Limit - 1
    BY <2>1, <2>3
  <2>7. PICK n \in Nat : n = a \div Limit
    BY <2>3, Quotient
  <2>8. p + 1 <= IF n = 0 THEN 1 ELSE n
    <3>1. CASE offset = 0
      <4>1. k = 0
        BY <2>3, <2>4, <3>1
      <4> QED
        BY <2>5, <2>7, <4>1
    <3>2. CASE offset < listed.total
      <4>1. Limit * (k + 1) <= a /\ k + 1 \in Nat
        BY <2>1, <2>3, <2>4, <2>6, <3>2
      <4>2. k + 1 <= n
        BY <2>3, <2>7, <4>1, QuotientIsLeast
      <4> QED
        BY <2>5, <2>7, <4>2
    <3> QED
      BY <2>1, <3>1, <3>2
  <2>9. Audit!CurrentPage <= Audit!TotalPages
    BY <2>5, <2>6, <2>7, <2>8 DEF Audit!CurrentPage, Audit!TotalPages
  <2> QED
    BY <2>1, <2>2, <2>9
<1> QED
  BY <1>2, <1>3 DEF Audit!ListIsAsked

-----------------------------------------------------------------------------
(* SignInPages: the telephone *)

RegisterConstants == Digits \subseteq 0..9

LEMMA OneMore == ASSUME NEW D, NEW s \in Seq(D), NEW d \in D PROVE Append(s, d) \in Seq(D)
OBVIOUS

LEMMA LeadingIsPart == ASSUME NEW D, NEW s \in Seq(D), NEW n \in Nat PROVE SignIn!Leading(s, n) \in Seq(D)
<1>1. PICK m \in Nat : m = (IF n < Len(s) THEN n ELSE Len(s)) /\ m <= Len(s)
  OBVIOUS
<1>2. SubSeq(s, 1, m) \in Seq(D)
  BY <1>1
<1> QED
  BY <1>1, <1>2 DEF SignIn!Leading

LEMMA NationalIsText ==
    ASSUME NEW t \in SignIn!Text PROVE SignIn!National(t) \in Seq(0..9) /\ SignIn!HasCountry(t) \in BOOLEAN
<1>1. t.digits \in Seq(0..9) /\ t.plus \in BOOLEAN
  BY DEF SignIn!Text
<1>2. SubSeq(t.digits, 3, Len(t.digits)) \in Seq(0..9)
  BY <1>1
<1>3. SignIn!HasCountry(t) \in BOOLEAN
  BY <1>1, Zenon DEF SignIn!HasCountry
<1> QED
  BY <1>1, <1>2, <1>3 DEF SignIn!National

LEMMA NormalizedIsText == ASSUME NEW t \in SignIn!Text PROVE SignIn!Normalized(t) \in SignIn!Text
<1>1. t.digits \in Seq(0..9)
  BY DEF SignIn!Text
<1>2. CASE SignIn!Foreign(t)
  <2>1. PICK d \in Seq(0..9) : d = SignIn!Leading(t.digits, SignIn!WithCountry)
    BY <1>1, LeadingIsPart DEF SignIn!WithCountry
  <2>2. SignIn!Normalized(t) = [t EXCEPT !.digits = d]
    BY <1>2, <2>1 DEF SignIn!Normalized
  <2> QED
    BY <2>2 DEF SignIn!Text
<1>3. CASE ~SignIn!Foreign(t)
  <2>1. PICK b \in BOOLEAN : b = SignIn!HasCountry(t)
    BY NationalIsText
  <2>2. PICK m \in Nat : m = SignIn!MaxNational(SignIn!National(t))
    BY DEF SignIn!MaxNational, SignIn!Mobile, SignIn!Landline
  <2>3. PICK d \in Seq(0..9) : d = SignIn!Leading(SignIn!National(t), m)
    BY NationalIsText, LeadingIsPart
  <2>4. PICK c \in Seq(0..9) : c = (IF b THEN SignIn!Country ELSE <<>>)
    <3>1. PICK D : D = 0..9
      OBVIOUS
    <3>2. 5 \in D
      BY <3>1
    <3>3. <<5, 5>> \in Seq(D) /\ << >> \in Seq(D)
      BY ONLY <3>2
    <3> QED
      BY <3>1, <3>3 DEF SignIn!Country
  <2>5. c \o d \in Seq(0..9)
    OBVIOUS
  <2>6. SignIn!Normalized(t) = [plus |-> b, digits |-> c \o d]
    BY <1>3, <2>1, <2>2, <2>3, <2>4 DEF SignIn!Normalized
  <2> QED
    BY <2>5, <2>6 DEF SignIn!Text
<1> QED
  BY <1>2, <1>3

LEMMA ChangeIsText ==
    ASSUME SignIn!FTypeOK, NEW t \in SignIn!Text, NEW u \in SignIn!Text, SignIn!Change(t, u) PROVE SignIn!FTypeOK'
BY NormalizedIsText DEF SignIn!FTypeOK, SignIn!Change

LEMMA PastedIsText == Pasted \subseteq SignIn!Text
<1>1. PICK D : D = 0..9
  OBVIOUS
<1>2. {0, 1, 2, 3, 4, 5, 6, 7, 9} \subseteq D
  BY <1>1
<1>3. /\ <<5, 5, 1, 1, 9, 0, 0, 0, 0, 1, 2, 3, 4>> \in Seq(D)
      /\ <<5, 5, 1, 1, 3, 0, 0, 0, 0, 1, 2, 3>> \in Seq(D)
      /\ <<5, 5, 1, 0, 3, 0, 0, 0, 0, 1, 2, 3>> \in Seq(D)
      /\ <<5, 5, 9, 9, 1, 2, 3, 4, 5, 6, 7>> \in Seq(D)
      /\ <<1, 2, 1, 2, 5, 5, 5, 0, 1, 0, 0>> \in Seq(D)
  BY ONLY <1>2
<1>4. \A b \in BOOLEAN, s \in Seq(D) : [plus |-> b, digits |-> s] \in SignIn!Text
  BY <1>1 DEF SignIn!Text
<1>5. TRUE \in BOOLEAN /\ FALSE \in BOOLEAN
  OBVIOUS
<1> QED
  BY ONLY <1>3, <1>4, <1>5, Zenon DEF Pasted

LEMMA RegisterStep == ASSUME RegisterConstants, SignIn!FTypeOK, SignIn!FNext \/ UNCHANGED register PROVE SignIn!FTypeOK'
<1>1. field \in SignIn!Text /\ typed \in SignIn!Text
  BY DEF SignIn!FTypeOK
<1>2. SignIn!NoText \in SignIn!Text
  <2>1. << >> \in Seq(0..9)
    OBVIOUS
  <2> QED
    BY <2>1 DEF SignIn!NoText, SignIn!Text
<1>3. ASSUME NEW d \in Digits, SignIn!Press(d) PROVE SignIn!FTypeOK'
  <2>1. ASSUME NEW t \in SignIn!Text PROVE [t EXCEPT !.digits = Append(@, d)] \in SignIn!Text
    <3>1. t.digits \in Seq(0..9) /\ d \in 0..9
      BY <1>3 DEF SignIn!Text, RegisterConstants
    <3>2. PICK s \in Seq(0..9) : s = Append(t.digits, d)
      BY <3>1, OneMore
    <3>3. [t EXCEPT !.digits = s] \in SignIn!Text
      BY DEF SignIn!Text
    <3> QED
      BY <3>2, <3>3
  <2> QED
    BY <1>1, <1>3, <2>1, ChangeIsText DEF SignIn!Press
<1>4. CASE SignIn!PressPlus
  <2>1. [SignIn!NoText EXCEPT !.plus = TRUE] \in SignIn!Text
    BY <1>2 DEF SignIn!Text
  <2> QED
    BY <1>4, <2>1, ChangeIsText DEF SignIn!PressPlus
<1>5. CASE SignIn!Erase
  <2>1. PICK t : t = IF field.digits = <<>> THEN SignIn!NoText ELSE [field EXCEPT !.digits = SignIn!Leading(@, Len(@) - 1)]
    OBVIOUS
  <2>2. t \in SignIn!Text
    <3>1. CASE field.digits = <<>>
      BY <1>2, <2>1, <3>1
    <3>2. CASE field.digits # <<>>
      <4>1. field.digits \in Seq(0..9)
        BY <1>1 DEF SignIn!Text
      <4>2. Len(field.digits) - 1 \in Nat
        BY <3>2, <4>1
      <4>3. PICK s \in Seq(0..9) : s = SignIn!Leading(field.digits, Len(field.digits) - 1)
        BY <4>1, <4>2, LeadingIsPart
      <4>4. t = [field EXCEPT !.digits = s]
        BY <2>1, <3>2, <4>3
      <4> QED
        BY <1>1, <4>4 DEF SignIn!Text
    <3> QED
      BY <3>1, <3>2
  <2>3. SignIn!Change(t, SignIn!Normalized(t))
    BY <1>5, <2>1 DEF SignIn!Erase
  <2> QED
    BY <2>2, <2>3, NormalizedIsText, ChangeIsText
<1>6. ASSUME NEW t \in Pasted, SignIn!Paste(t) PROVE SignIn!FTypeOK'
  BY <1>6, PastedIsText, ChangeIsText DEF SignIn!Paste
<1>7. CASE UNCHANGED register
  BY <1>1, <1>7 DEF register, SignIn!FTypeOK
<1> QED
  BY <1>3, <1>4, <1>5, <1>6, <1>7 DEF SignIn!FNext

LEMMA RegisterStart == ASSUME SignIn!FInit PROVE SignIn!FTypeOK
<1>1. << >> \in Seq(0..9)
  OBVIOUS
<1> QED
  BY <1>1 DEF SignIn!FInit, SignIn!FTypeOK, SignIn!NoText, SignIn!Text

\* Of a text that is not too long the mask keeps every digit.
LEMMA SameSequence ==
    ASSUME NEW D, NEW s \in Seq(D), NEW w \in Seq(D), NEW n \in Nat, Len(s) = n, Len(w) = n, \A i \in 1..n : s[i] = w[i]
    PROVE  s = w
<1>1. s \in [1..n -> D] /\ w \in [1..n -> D]
  OBVIOUS
<1> QED
  BY ONLY <1>1, \A i \in 1..n : s[i] = w[i]

LEMMA LeadingIsAll == ASSUME NEW D, NEW s \in Seq(D), NEW n \in Nat, Len(s) <= n PROVE SignIn!Leading(s, n) = s
<1>1. PICK m \in Nat : m = Len(s) /\ m = (IF n < Len(s) THEN n ELSE Len(s))
  OBVIOUS
<1>2. PICK w \in Seq(D) : w = SubSeq(s, 1, m) /\ Len(w) = m /\ \A i \in 1..m : w[i] = s[i]
  <2>1. SubSeq(s, 1, m) \in Seq(D)
    BY <1>1
  <2>2. Len(SubSeq(s, 1, m)) = m /\ \A i \in 1..m : SubSeq(s, 1, m)[i] = s[i]
    BY <1>1
  <2> QED
    BY <2>1, <2>2
<1>3. w = s
  BY <1>1, <1>2, SameSequence
<1> QED
  BY <1>1, <1>2, <1>3 DEF SignIn!Leading

LEMMA CountryAndRest ==
    ASSUME NEW D, NEW s \in Seq(D), SignIn!Leading(s, 2) = <<5, 5>>
    PROVE  Len(s) >= 2 /\ <<5, 5>> \o SubSeq(s, 3, Len(s)) = s
<1>1. PICK n \in Nat : n = Len(s) /\ DOMAIN s = 1..n
  OBVIOUS
<1>2. PICK m \in Nat : m = (IF 2 < n THEN 2 ELSE n) /\ m <= n
  BY ONLY <1>1
<1>3. SubSeq(s, 1, m) = <<5, 5>>
  BY <1>1, <1>2 DEF SignIn!Leading
<1>4. PICK w : w = SubSeq(s, 1, m) /\ Len(w) = m /\ \A i \in 1..m : w[i] = s[i]
  <2>1. Len(SubSeq(s, 1, m)) = m /\ \A i \in 1..m : SubSeq(s, 1, m)[i] = s[i]
    BY <1>1, <1>2
  <2> QED
    BY <2>1
<1>5. m = 2 /\ n >= 2 /\ s[1] = 5 /\ s[2] = 5
  <2>1. w = <<5, 5>>
    BY ONLY <1>3, <1>4
  <2>4. Len(w) = 2 /\ w[1] = 5 /\ w[2] = 5
    BY ONLY <2>1
  <2>5. m = 2
    BY ONLY <1>4, <2>4
  <2>2. n >= 2
    BY ONLY <1>2, <2>5, n \in Nat
  <2>3. \A i \in 1..2 : w[i] = s[i]
    BY ONLY <1>4, <2>5
  <2> QED
    BY ONLY <2>2, <2>3, <2>4, <2>5
<1>6. PICK r \in Seq(D) : r = SubSeq(s, 3, n) /\ Len(r) = n - 2 /\ \A i \in 1..(n - 2) : r[i] = s[i + 2]
  <2>1. SubSeq(s, 3, n) \in Seq(D)
    BY <1>1
  <2>2. Len(SubSeq(s, 3, n)) = n - 2
    BY <1>1, <1>5
  <2>3. \A i \in 1..(n - 2) : SubSeq(s, 3, n)[i] = s[i + 2]
    BY <1>1, <1>5
  <2> QED
    BY <2>1, <2>2, <2>3
<1>7. <<5, 5>> \o r = s
  <2>1. 5 \in D
    BY <1>1, <1>5
  <2>2. <<5, 5>> \in Seq(D)
    BY ONLY <2>1
  <2>3. PICK c \in Seq(D) : c = <<5, 5>>
    BY ONLY <2>2
  <2>4. Len(c) = 2 /\ c[1] = 5 /\ c[2] = 5
    BY ONLY <2>3
  <2>7. PICK v \in Seq(D) : v = c \o r
    <3>1. c \o r \in Seq(D)
      BY ONLY c \in Seq(D), r \in Seq(D)
    <3> QED
      BY ONLY <3>1
  <2>5. Len(v) = n /\ \A i \in 1..n : v[i] = IF i <= 2 THEN c[i] ELSE r[i - 2]
    <3>1. Len(v) = Len(c) + Len(r) /\ \A i \in 1..(Len(c) + Len(r)) : v[i] = IF i <= Len(c) THEN c[i] ELSE r[i - Len(c)]
      BY ONLY <2>7, c \in Seq(D), r \in Seq(D)
    <3>2. Len(c) + Len(r) = n
      BY ONLY <1>6, <2>4, n \in Nat
    <3> QED
      BY ONLY <2>4, <3>1, <3>2
  <2>6. ASSUME NEW i \in 1..n PROVE v[i] = s[i]
    <3>1. CASE i \in {1, 2}
      BY <1>5, <2>4, <2>5, <3>1
    <3>2. CASE i > 2
      <4>1. i - 2 \in 1..(n - 2) /\ (i - 2) + 2 = i /\ ~(i <= 2)
        BY ONLY <3>2, i \in 1..n, n \in Nat
      <4> QED
        BY <1>6, <2>5, <4>1
    <3> QED
      BY <3>1, <3>2
  <2> QED
    <3>1. v = s
      BY <1>1, <2>5, <2>6, SameSequence
    <3> QED
      BY <2>3, <2>7, <3>1
<1> QED
  BY <1>1, <1>5, <1>6, <1>7

LEMMA NormalizedKeeps ==
    ASSUME NEW t \in SignIn!Text, ~SignIn!TooLong(t)
    PROVE  SignIn!Normalized(t) = [plus |-> SignIn!HasCountry(t), digits |-> t.digits]
<1>1. t.digits \in Seq(0..9) /\ t.plus \in BOOLEAN /\ t = [plus |-> t.plus, digits |-> t.digits]
  BY DEF SignIn!Text
<1>2. PICK n \in Nat : n = Len(t.digits)
  BY <1>1
<1>3. PICK r \in Seq(0..9) : r = SignIn!National(t)
  BY NationalIsText
<1>4. PICK m \in Nat : m = SignIn!MaxNational(r) /\ m <= 11
  BY DEF SignIn!MaxNational, SignIn!Mobile, SignIn!Landline
<1>5. n <= m + (IF SignIn!HasCountry(t) THEN 2 ELSE 0)
  BY <1>2, <1>3, <1>4 DEF SignIn!TooLong
<1>6. CASE SignIn!Foreign(t)
  <2>1. SignIn!HasCountry(t) /\ t.plus
    BY <1>6 DEF SignIn!Foreign, SignIn!HasCountry
  <2>2. n <= 13
    BY ONLY <1>4, <1>5, <2>1, n \in Nat
  <2>3. SignIn!Leading(t.digits, SignIn!WithCountry) = t.digits
    BY <1>1, <1>2, <2>2, LeadingIsAll DEF SignIn!WithCountry
  <2> QED
    BY <1>1, <1>6, <2>1, <2>3 DEF SignIn!Normalized
<1>7. CASE ~SignIn!Foreign(t) /\ SignIn!HasCountry(t)
  <2>1. SignIn!HasPrefix(t)
    BY <1>7 DEF SignIn!Foreign, SignIn!HasCountry
  <2>2. r = SubSeq(t.digits, 3, n)
    BY <1>2, <1>3, <1>7 DEF SignIn!National
  <2>3. n >= 2 /\ SignIn!Country \o r = t.digits
    BY <1>1, <1>2, <2>1, <2>2, CountryAndRest DEF SignIn!HasPrefix, SignIn!Country
  <2>4. PICK k \in Nat : k = n - 2 /\ Len(r) = k
    <3>1. PICK d \in Seq(0..9) : d = t.digits /\ n = Len(d)
      BY <1>1, <1>2
    <3>2. Len(SubSeq(d, 3, n)) = n - 2
      BY ONLY <2>3, <3>1, n \in Nat
    <3> QED
      BY ONLY <2>2, <2>3, <3>1, <3>2, n \in Nat
  <2>5. SignIn!Leading(r, m) = r
    BY <1>5, <1>7, <2>4, LeadingIsAll
  <2> QED
    BY <1>3, <1>4, <1>7, <2>3, <2>5 DEF SignIn!Normalized
<1>8. CASE ~SignIn!Foreign(t) /\ ~SignIn!HasCountry(t)
  <2>1. r = t.digits
    BY <1>3, <1>8 DEF SignIn!National
  <2>2. SignIn!Leading(r, m) = r
    BY <1>2, <1>5, <1>8, <2>1, LeadingIsAll
  <2>3. << >> \o t.digits = t.digits
    BY <1>1
  <2>4. SignIn!HasCountry(t) = FALSE
    BY <1>8, NationalIsText
  <2> QED
    BY <1>3, <1>4, <1>8, <2>1, <2>2, <2>3, <2>4 DEF SignIn!Normalized
<1> QED
  BY <1>6, <1>7, <1>8

\* The field has the digits that were meant, and a plus where one was meant or where there
\* are too many of them for a number without its country.
CodeIsTold(s) == SignIn!HasPrefix([plus |-> FALSE, digits |-> s]) /\ Len(s) > 11
Meant(t, u) == t.digits = u.digits /\ (t.plus <=> u.plus \/ CodeIsTold(t.digits))
RegisterInv == SignIn!FTypeOK /\ Meant(field, typed)

LEMMA CountryIsTold == ASSUME NEW t \in SignIn!Text PROVE SignIn!HasCountry(t) <=> t.plus \/ CodeIsTold(t.digits)
BY DEF SignIn!HasCountry, SignIn!HasPrefix, SignIn!Mobile, CodeIsTold

LEMMA ChangeIsMeant ==
    ASSUME RegisterInv, NEW t \in SignIn!Text, NEW u \in SignIn!Text, SignIn!Change(t, u),
           t.digits = u.digits, t.plus \/ CodeIsTold(t.digits) <=> u.plus \/ CodeIsTold(t.digits)
    PROVE  Meant(field, typed)'
<1>1. CASE SignIn!TooLong(t)
  <2>1. field' = field /\ typed' = typed
    BY <1>1 DEF SignIn!Change
  <2> QED
    BY <2>1 DEF RegisterInv, Meant
<1>2. CASE ~SignIn!TooLong(t)
  <2>1. PICK b \in BOOLEAN : b = SignIn!HasCountry(t)
    BY NationalIsText
  <2>2. field' = [plus |-> b, digits |-> t.digits] /\ typed' = u
    BY <1>2, <2>1, NormalizedKeeps DEF SignIn!Change
  <2>3. b <=> u.plus \/ CodeIsTold(t.digits)
    BY <2>1, CountryIsTold
  <2>4. field'.digits = u.digits /\ (field'.plus <=> u.plus \/ CodeIsTold(u.digits))
    BY <2>2, <2>3
  <2> QED
    BY <2>2, <2>4 DEF Meant
<1> QED
  BY <1>1, <1>2

LEMMA ToldStays == ASSUME NEW D, NEW s \in Seq(D), NEW d \in D, CodeIsTold(s) PROVE CodeIsTold(Append(s, d))
<1>1. PICK n \in Nat : n = Len(s) /\ n > 11
  BY DEF CodeIsTold
<1>2. SignIn!Leading(s, 2) = SubSeq(s, 1, 2)
  BY <1>1 DEF SignIn!Leading
<1>3. Len(Append(s, d)) = n + 1
  BY <1>1
<1>4. SignIn!Leading(Append(s, d), 2) = SubSeq(Append(s, d), 1, 2)
  BY <1>1, <1>3 DEF SignIn!Leading
<1>5. SubSeq(Append(s, d), 1, 2) = SubSeq(s, 1, 2)
  BY <1>1
<1> QED
  BY <1>1, <1>2, <1>3, <1>4, <1>5 DEF CodeIsTold, SignIn!HasPrefix

LEMMA RegisterKeeps == ASSUME RegisterConstants, RegisterInv, SignIn!FNext \/ UNCHANGED register PROVE RegisterInv'
<1>1. field \in SignIn!Text /\ typed \in SignIn!Text /\ Meant(field, typed)
  BY DEF RegisterInv, SignIn!FTypeOK
<1>2. SignIn!NoText \in SignIn!Text
  <2>1. << >> \in Seq(0..9)
    OBVIOUS
  <2> QED
    BY <2>1 DEF SignIn!NoText, SignIn!Text
<1>3. SignIn!FTypeOK'
  BY RegisterStep DEF RegisterInv
<1>4. ASSUME NEW d \in Digits, SignIn!Press(d) PROVE Meant(field, typed)'
  <2>1. field.digits \in Seq(0..9) /\ typed.digits = field.digits /\ d \in 0..9
    BY <1>1, <1>4 DEF SignIn!Text, RegisterConstants, Meant
  <2>2. PICK s \in Seq(0..9) : s = Append(field.digits, d)
    BY <2>1, OneMore
  <2>3. PICK t \in SignIn!Text : t = [field EXCEPT !.digits = s] /\ t.digits = s /\ t.plus = field.plus
    <3>1. /\ [field EXCEPT !.digits = s] \in SignIn!Text /\ [field EXCEPT !.digits = s].digits = s
          /\ [field EXCEPT !.digits = s].plus = field.plus
      BY <1>1 DEF SignIn!Text
    <3> QED
      BY <3>1
  <2>4. PICK u \in SignIn!Text : u = [typed EXCEPT !.digits = s] /\ u.digits = s /\ u.plus = typed.plus
    <3>1. /\ [typed EXCEPT !.digits = s] \in SignIn!Text /\ [typed EXCEPT !.digits = s].digits = s
          /\ [typed EXCEPT !.digits = s].plus = typed.plus
      BY <1>1 DEF SignIn!Text
    <3> QED
      BY <3>1
  <2>5. SignIn!Change(t, u)
    BY <1>4, <2>1, <2>2, <2>3, <2>4 DEF SignIn!Press
  <2>6. CodeIsTold(field.digits) => CodeIsTold(s)
    BY <2>1, <2>2, ToldStays
  <2>7. t.plus \/ CodeIsTold(s) <=> u.plus \/ CodeIsTold(s)
    BY <1>1, <2>3, <2>4, <2>6 DEF Meant
  <2> QED
    BY <2>3, <2>4, <2>5, <2>7, ChangeIsMeant
<1>5. CASE SignIn!PressPlus
  <2>1. PICK t \in SignIn!Text : t = [SignIn!NoText EXCEPT !.plus = TRUE]
    BY <1>2 DEF SignIn!Text
  <2>2. SignIn!Change(t, t)
    BY <1>5, <2>1 DEF SignIn!PressPlus
  <2> QED
    BY <1>3, <2>2, ChangeIsMeant DEF RegisterInv
<1>6. ASSUME NEW t \in SignIn!Text, SignIn!Change(t, SignIn!Normalized(t)) PROVE Meant(field, typed)'
  <2>1. CASE SignIn!TooLong(t)
    BY <1>1, <1>6, <2>1 DEF SignIn!Change, Meant
  <2>2. CASE ~SignIn!TooLong(t)
    <3>1. PICK b \in BOOLEAN : b = SignIn!HasCountry(t)
      BY NationalIsText
    <3>2. PICK u \in SignIn!Text : u = SignIn!Normalized(t) /\ u.digits = t.digits /\ u.plus = b
      BY <2>2, <3>1, NormalizedIsText, NormalizedKeeps
    <3>3. t.plus \/ CodeIsTold(t.digits) <=> u.plus \/ CodeIsTold(t.digits)
      BY <3>1, <3>2, CountryIsTold
    <3> QED
      BY <1>6, <3>2, <3>3, ChangeIsMeant
  <2> QED
    BY <2>1, <2>2
<1>7. CASE SignIn!Erase
  <2>1. PICK t : t = IF field.digits = <<>> THEN SignIn!NoText ELSE [field EXCEPT !.digits = SignIn!Leading(@, Len(@) - 1)]
    OBVIOUS
  <2>2. t \in SignIn!Text
    <3>1. CASE field.digits = <<>>
      BY <1>2, <2>1, <3>1
    <3>2. CASE field.digits # <<>>
      <4>1. field.digits \in Seq(0..9)
        BY <1>1 DEF SignIn!Text
      <4>2. Len(field.digits) - 1 \in Nat
        BY <3>2, <4>1
      <4>3. PICK s \in Seq(0..9) : s = SignIn!Leading(field.digits, Len(field.digits) - 1)
        BY <4>1, <4>2, LeadingIsPart
      <4>4. t = [field EXCEPT !.digits = s]
        BY <2>1, <3>2, <4>3
      <4> QED
        BY <1>1, <4>4 DEF SignIn!Text
    <3> QED
      BY <3>1, <3>2
  <2>3. SignIn!Change(t, SignIn!Normalized(t))
    BY <1>7, <2>1 DEF SignIn!Erase
  <2> QED
    BY <1>3, <1>6, <2>2, <2>3 DEF RegisterInv
<1>8. ASSUME NEW t \in Pasted, SignIn!Paste(t) PROVE Meant(field, typed)'
  BY <1>8, PastedIsText, ChangeIsMeant DEF SignIn!Paste
<1>9. CASE UNCHANGED register
  BY <1>1, <1>3, <1>9 DEF RegisterInv, register, Meant, CodeIsTold, SignIn!HasPrefix, SignIn!Leading, SignIn!Country
<1> QED
  BY <1>3, <1>4, <1>5, <1>7, <1>8, <1>9 DEF SignIn!FNext, RegisterInv

LEMMA RegisterBegins == ASSUME SignIn!FInit PROVE RegisterInv
<1>1. SignIn!FTypeOK
  BY RegisterStart
<1>2. ~CodeIsTold(<< >>)
  BY DEF CodeIsTold
<1> QED
  BY <1>1, <1>2 DEF SignIn!FInit, SignIn!NoText, RegisterInv, Meant

LEMMA MeantIsSent == ASSUME RegisterInv PROVE SignIn!TypedIsSent
<1> SUFFICES ASSUME SignIn!Valid(typed) PROVE SignIn!MaySubmit /\ SignIn!Payload = typed
  BY DEF SignIn!TypedIsSent
<1>1. /\ field = [plus |-> field.plus, digits |-> field.digits] /\ typed = [plus |-> typed.plus, digits |-> typed.digits]
      /\ field.plus \in BOOLEAN /\ typed.plus \in BOOLEAN
  BY DEF RegisterInv, SignIn!FTypeOK, SignIn!Text
<1>2. field.digits = typed.digits /\ (field.plus <=> typed.plus \/ CodeIsTold(field.digits))
  BY DEF RegisterInv, Meant
<1>3. ~typed.plus => ~CodeIsTold(field.digits)
  <2>1. ASSUME ~typed.plus PROVE Len(typed.digits) \in {11, 10}
    BY <2>1 DEF SignIn!Valid, SignIn!ValidNational, SignIn!Mobile, SignIn!Landline
  <2>2. CodeIsTold(field.digits) => Len(field.digits) > 11
    BY DEF CodeIsTold
  <2>3. ~typed.plus => ~(Len(typed.digits) > 11)
    <3>1. PICK k : k = Len(typed.digits)
      OBVIOUS
    <3>2. k \in {11, 10} => ~(k > 11)
      OBVIOUS
    <3> QED
      BY <2>1, <3>1, <3>2
  <2> QED
    BY ONLY <1>2, <2>2, <2>3
<1>4. field.plus = typed.plus
  BY ONLY <1>1, <1>2, <1>3
<1>5. field = typed
  BY ONLY <1>1, <1>2, <1>4
<1> QED
  BY <1>5 DEF SignIn!MaySubmit, SignIn!Payload

-----------------------------------------------------------------------------
(* JobFilters *)

FilterConstants == MaxEdits \in Nat

Menus == [level : FilterMenus!Levels \cup Strangers \cup {"Todos"}, continent : Places \cup {"Todos"},
          country : Places \cup {"Todos"}, order : FilterMenus!Orders, families : SUBSET (Areas \cup Strangers)]

LEMMA ChosenIsScreen ==
    ASSUME FilterConstants, FilterMenus!FTypeOK, NEW s \in FilterMenus!Screen, FilterMenus!Choose(s) PROVE FilterMenus!FTypeOK'
<1>1. choices' \in 0..MaxEdits
  BY DEF FilterMenus!FTypeOK, FilterMenus!Choose, FilterMenus!Edit, FilterConstants
<1> QED
  BY <1>1 DEF FilterMenus!FTypeOK, FilterMenus!Choose

LEMMA FilterOfScreen ==
    ASSUME NEW s \in FilterMenus!Screen, NEW f \in Menus, NEW t, t = [s EXCEPT !.filter = f]
    PROVE  t \in FilterMenus!Screen
BY DEF FilterMenus!Screen, FilterMenus!Filter, Menus

LEMMA NoFilterIsFilter == FilterMenus!NoFilter \in Menus
BY DEF FilterMenus!NoFilter, Menus, FilterMenus!Orders

LEMMA FiltersStep == ASSUME FilterConstants, FilterMenus!FTypeOK, FilterMenus!FNext \/ UNCHANGED filters PROVE FilterMenus!FTypeOK'
<1>1. /\ screen \in FilterMenus!Screen /\ url \in FilterMenus!Link /\ rendering \in BOOLEAN
      /\ opened \in {"j1"} \cup {None} /\ choices \in 0..MaxEdits
  BY DEF FilterMenus!FTypeOK
<1>2. screen.filter \in Menus /\ url.filter \in Menus /\ url.job \in {"j1"} \cup {None}
  BY <1>1 DEF FilterMenus!Screen, FilterMenus!Link, FilterMenus!Filter, Menus
<1>3. \A f \in Menus : [url EXCEPT !.filter = f] \in FilterMenus!Link
  BY <1>1 DEF FilterMenus!Link, FilterMenus!Filter, Menus
<1>4. CASE FilterMenus!Effects
  <2>1. FilterMenus!Synced \in FilterMenus!Link /\ FilterMenus!WithoutJob \in FilterMenus!Link
    <3>1. [url EXCEPT !.job = None] \in FilterMenus!Link
      BY <1>1 DEF FilterMenus!Link
    <3> QED
      BY <1>2, <1>3, <3>1 DEF FilterMenus!Synced, FilterMenus!WithoutJob
  <2>2. rendering' \in BOOLEAN
    BY <1>4, Zenon DEF FilterMenus!Effects
  <2> QED
    BY <1>1, <1>2, <1>4, <2>1, <2>2 DEF FilterMenus!FTypeOK, FilterMenus!Effects
<1>5. ASSUME NEW l \in FilterMenus!Levels \cup {"Todos"}, FilterMenus!ChooseLevel(l) PROVE FilterMenus!FTypeOK'
  <2>1. [screen.filter EXCEPT !.level = l] \in Menus
    BY <1>2 DEF Menus
  <2>2. [screen EXCEPT !.filter = [screen.filter EXCEPT !.level = l]] \in FilterMenus!Screen
    BY <1>1, <2>1, FilterOfScreen
  <2> QED
    BY <1>5, <2>2, ChosenIsScreen DEF FilterMenus!ChooseLevel
<1>6. ASSUME NEW c \in Places \cup {"Todos"}, NEW k \in Places \cup {"Todos"}, FilterMenus!ChoosePlace(c, k) PROVE FilterMenus!FTypeOK'
  <2>1. PICK f : f = [screen.filter EXCEPT !.continent = c, !.country = k]
    OBVIOUS
  <2>2. f \in Menus
    BY <1>2, <2>1 DEF Menus
  <2>3. [screen EXCEPT !.filter.continent = c, !.filter.country = k] = [screen EXCEPT !.filter = f]
    BY <1>1, <2>1 DEF FilterMenus!Screen
  <2>4. [screen EXCEPT !.filter = f] \in FilterMenus!Screen
    BY <1>1, <2>2, FilterOfScreen
  <2> QED
    BY <1>6, <2>3, <2>4, ChosenIsScreen DEF FilterMenus!ChoosePlace
<1>7. ASSUME NEW o \in FilterMenus!Orders, FilterMenus!ChooseOrder(o) PROVE FilterMenus!FTypeOK'
  <2>1. [screen.filter EXCEPT !.order = o] \in Menus
    BY <1>2 DEF Menus
  <2>2. [screen EXCEPT !.filter = [screen.filter EXCEPT !.order = o]] \in FilterMenus!Screen
    BY <1>1, <2>1, FilterOfScreen
  <2> QED
    BY <1>7, <2>2, ChosenIsScreen DEF FilterMenus!ChooseOrder
<1>8. ASSUME NEW m \in FilterMenus!ModelChoices, FilterMenus!ChooseModel(m) PROVE FilterMenus!FTypeOK'
  <2>1. [screen EXCEPT !.model = m] \in FilterMenus!Screen
    BY <1>1 DEF FilterMenus!Screen
  <2> QED
    BY <1>8, <2>1, ChosenIsScreen DEF FilterMenus!ChooseModel
<1>9. ASSUME NEW a \in SUBSET (Areas \cup Strangers), FilterMenus!Choose([screen EXCEPT !.filter.families = a]) PROVE FilterMenus!FTypeOK'
  <2>1. [screen.filter EXCEPT !.families = a] \in Menus
    BY <1>2 DEF Menus
  <2>2. [screen EXCEPT !.filter = [screen.filter EXCEPT !.families = a]] \in FilterMenus!Screen
    BY <1>1, <2>1, FilterOfScreen
  <2> QED
    BY <1>9, <2>2, ChosenIsScreen
<1>10. screen.filter.families \subseteq Areas \cup Strangers
  BY <1>2 DEF Menus
<1>11. ASSUME NEW a \in Areas, FilterMenus!ToggleFamily(a) PROVE FilterMenus!FTypeOK'
  <2>1. PICK b : b = IF a \in screen.filter.families THEN screen.filter.families \ {a} ELSE screen.filter.families \cup {a}
    OBVIOUS
  <2>2. b \in SUBSET (Areas \cup Strangers)
    BY <1>10, <2>1
  <2>3. FilterMenus!Choose([screen EXCEPT !.filter.families = b])
    BY <1>11, <2>1 DEF FilterMenus!ToggleFamily
  <2> QED
    BY <1>9, <2>2, <2>3
<1>12. CASE FilterMenus!ClearFamilies
  BY <1>9, <1>12 DEF FilterMenus!ClearFamilies
<1>13. ASSUME NEW j \in {"j1"} \cup {None}, FilterMenus!Navigate(j) PROVE FilterMenus!FTypeOK'
  <2>1. [filter |-> FilterMenus!NoFilter, job |-> j] \in FilterMenus!Link
    BY NoFilterIsFilter DEF FilterMenus!Link, FilterMenus!Filter, Menus
  <2>2. choices' \in 0..MaxEdits
    BY <1>1, <1>13 DEF FilterMenus!Navigate, FilterMenus!Edit, FilterConstants
  <2> QED
    BY <1>1, <1>13, <2>1, <2>2 DEF FilterMenus!FTypeOK, FilterMenus!Navigate
<1>14. CASE FilterMenus!CloseJob
  BY <1>1, <1>14 DEF FilterMenus!FTypeOK, FilterMenus!CloseJob
<1>15. CASE FilterMenus!Search
  BY <1>1, <1>15 DEF FilterMenus!FTypeOK, FilterMenus!Search
<1>16. CASE FilterMenus!Reload
  <2>1. FilterMenus!Mounted(url) \in FilterMenus!Screen
    BY <1>2 DEF FilterMenus!Mounted, FilterMenus!Screen, FilterMenus!Filter, Menus, FilterMenus!ModelChoices
  <2>2. choices' \in 0..MaxEdits
    BY <1>1, <1>16 DEF FilterMenus!Reload, FilterMenus!Edit, FilterConstants
  <2> QED
    BY <1>1, <1>16, <2>1, <2>2 DEF FilterMenus!FTypeOK, FilterMenus!Reload
<1>17. CASE UNCHANGED filters
  BY <1>1, <1>17 DEF filters, FilterMenus!FTypeOK
<1> QED
  BY <1>4, <1>5, <1>6, <1>7, <1>8, <1>11, <1>12, <1>13, <1>14, <1>15, <1>16, <1>17 DEF FilterMenus!FNext

LEMMA FiltersStart == ASSUME FilterConstants, FilterMenus!FInit PROVE FilterMenus!FTypeOK
<1>1. FilterMenus!Mounted(url) \in FilterMenus!Screen
  BY DEF FilterMenus!FInit, FilterMenus!Link, FilterMenus!Mounted, FilterMenus!Screen, FilterMenus!ModelChoices
<1> QED
  BY <1>1 DEF FilterMenus!FInit, FilterMenus!FTypeOK, FilterConstants

\* A parameter that has no values is read as none.
LEMMA SentIsRead == ASSUME NEW a, NEW k \in DOMAIN a PROVE FilterMenus!Values(FilterMenus!Sent(a), k) = a[k]
<1>1. PICK p : p = [n \in {m \in DOMAIN a : a[m] # {}} |-> a[n]]
  OBVIOUS
<1>2. DOMAIN p = {m \in DOMAIN a : a[m] # {}} /\ \A n \in DOMAIN p : p[n] = a[n]
  BY <1>1
<1>3. (IF k \in DOMAIN p THEN p[k] ELSE {}) = a[k]
  BY <1>2
<1> QED
  BY <1>1, <1>3 DEF FilterMenus!Values, FilterMenus!Sent

LEMMA AskedIs ==
    ASSUME NEW s \in FilterMenus!Screen, NEW p, p = FilterMenus!Sent(FilterMenus!Asked(s)), NEW f, f = s.filter
    PROVE  /\ FilterMenus!Values(p, "level") = FilterMenus!Value(f.level)
           /\ FilterMenus!Values(p, "continent") = FilterMenus!Value(f.continent)
           /\ FilterMenus!Values(p, "country") = FilterMenus!Value(f.country)
           /\ FilterMenus!Values(p, "location") = FilterMenus!Value(f.country)
           /\ FilterMenus!Values(p, "matchSort") = FilterMenus!Value(f.order)
           /\ FilterMenus!Values(p, "type") = FilterMenus!TypesOf(s.model)
           /\ FilterMenus!Values(p, "model") = FilterMenus!TypesOf(s.model)
           /\ FilterMenus!Values(p, "family") = f.families
           /\ FilterMenus!Values(p, "familyMode") = IF f.families = {} THEN {} ELSE {"primary"}
<1>1. PICK a : a = FilterMenus!Asked(s)
  OBVIOUS
<1>2. /\ DOMAIN a = {"level", "continent", "country", "location", "matchSort", "type", "model", "family", "familyMode"}
      /\ a["level"] = FilterMenus!Value(f.level) /\ a["continent"] = FilterMenus!Value(f.continent)
      /\ a["country"] = FilterMenus!Value(f.country) /\ a["location"] = FilterMenus!Value(f.country)
      /\ a["matchSort"] = FilterMenus!Value(f.order) /\ a["type"] = FilterMenus!TypesOf(s.model)
      /\ a["model"] = FilterMenus!TypesOf(s.model) /\ a["family"] = f.families
      /\ a["familyMode"] = IF f.families = {} THEN {} ELSE {"primary"}
  BY <1>1 DEF FilterMenus!Asked
<1>3. \A k \in DOMAIN a : FilterMenus!Values(p, k) = a[k]
  BY <1>1, SentIsRead
<1> QED
  BY ONLY <1>2, <1>3

\* What was asked last is of the filters on the screen; without a render to come so is the link.
IsRead(q, s) ==
    LET f == s.filter
    IN  /\ q.refused <=> ~(f.families \subseteq Areas)
        /\ q.types = FilterMenus!TypesOf(s.model) /\ q.families = f.families /\ q.related = FALSE
        /\ q.place = {f.country} \ {"Todos"} /\ q.continent = {f.continent} \ {"Todos"}
        /\ f.level \in FilterMenus!Levels => q.level \subseteq {"Estagio", "Junior", "Pleno", "Senior"} /\ q.level # {}
        /\ q.order = {f.order} \ {"default"}
AnswerIsOfScreen == parsed # None => IsRead(parsed, screen)
InLink == ~rendering => url.filter = screen.filter /\ url.job = None
FiltersInv == FilterMenus!FTypeOK /\ AnswerIsOfScreen /\ InLink

MenuConstants ==
    /\ FilterConstants /\ IsFiniteSet(Areas)
    /\ "Todos" \notin Places \cup Strangers /\ "default" \notin Places \cup Strangers

LEMMA ParsedIs ==
    ASSUME MenuConstants, NEW s \in FilterMenus!Screen, NEW p, p = FilterMenus!Sent(FilterMenus!Asked(s)),
           NEW q, q = FilterMenus!Read(p), NEW f, f = s.filter
    PROVE  IsRead(q, s)
<1>1. /\ f.level \in FilterMenus!Levels \cup Strangers \cup {"Todos"} /\ f.continent \in Places \cup {"Todos"}
      /\ f.country \in Places \cup {"Todos"} /\ f.order \in FilterMenus!Orders /\ f.families \subseteq Areas \cup Strangers
  BY DEF FilterMenus!Screen, FilterMenus!Filter
<1>2. /\ FilterMenus!Values(p, "level") = FilterMenus!Value(f.level)
      /\ FilterMenus!Values(p, "continent") = FilterMenus!Value(f.continent)
      /\ FilterMenus!Values(p, "country") = FilterMenus!Value(f.country)
      /\ FilterMenus!Values(p, "location") = FilterMenus!Value(f.country)
      /\ FilterMenus!Values(p, "matchSort") = FilterMenus!Value(f.order)
      /\ FilterMenus!Values(p, "type") = FilterMenus!TypesOf(s.model)
      /\ FilterMenus!Values(p, "model") = FilterMenus!TypesOf(s.model)
      /\ FilterMenus!Values(p, "family") = f.families
      /\ FilterMenus!Values(p, "familyMode") = IF f.families = {} THEN {} ELSE {"primary"}
  BY AskedIs
<1>3. /\ FilterMenus!Value(f.country) = {f.country} \ {"Todos"} /\ FilterMenus!Value(f.continent) = {f.continent} \ {"Todos"}
  BY <1>1 DEF FilterMenus!Value, MenuConstants
<1>4. /\ q.refused = FilterMenus!FamiliesRefused(p)
      /\ q.level = {IF l = "Estagio/Trainee" THEN "Estagio" ELSE l : l \in FilterMenus!Values(p, "level")}
      /\ q.continent = FilterMenus!Values(p, "continent")
      /\ q.place = IF FilterMenus!Values(p, "country") # {} THEN FilterMenus!Values(p, "country") ELSE FilterMenus!Values(p, "location")
      /\ q.types = IF FilterMenus!Values(p, "model") # {} THEN FilterMenus!Values(p, "model") ELSE FilterMenus!Values(p, "type")
      /\ q.families = FilterMenus!Values(p, "family")
      /\ q.related = (FilterMenus!Values(p, "family") # {} /\ FilterMenus!Values(p, "familyMode") # {"primary"})
      /\ q.order = FilterMenus!Values(p, "matchSort") \cap {"asc", "desc"}
  BY DEF FilterMenus!Read
<1>5. q.refused <=> ~(f.families \subseteq Areas)
  <2>1. FilterMenus!FamiliesRefused(p) <=> \/ ~(f.families \subseteq Areas)
                                           \/ FilterMenus!Cardinality(f.families) > FilterMenus!Cardinality(Areas)
    BY <1>2 DEF FilterMenus!FamiliesRefused
  <2>2. \A S : FilterMenus!Cardinality(S) = Cardinality(S)
    BY Zenon DEF FilterMenus!Cardinality, Cardinality
  <2>3. f.families \subseteq Areas => ~(Cardinality(f.families) > Cardinality(Areas))
    <3>1. ASSUME f.families \subseteq Areas PROVE Cardinality(f.families) <= Cardinality(Areas) /\ Cardinality(f.families) \in Nat
      BY <3>1, FS_Subset, FS_CardinalityType DEF MenuConstants
    <3>2. Cardinality(Areas) \in Nat
      BY FS_CardinalityType DEF MenuConstants
    <3> QED
      BY <3>1, <3>2
  <2> QED
    BY <1>4, <2>1, <2>2, <2>3
<1>6. q.related = FALSE
  BY <1>2, <1>4
<1>7. f.level \in FilterMenus!Levels => q.level \subseteq {"Estagio", "Junior", "Pleno", "Senior"} /\ q.level # {}
  <2>1. q.level = {IF l = "Estagio/Trainee" THEN "Estagio" ELSE l : l \in FilterMenus!Value(f.level)}
    BY ONLY <1>2, <1>4
  <2>2. f.level \in FilterMenus!Levels => FilterMenus!Value(f.level) = {f.level}
    BY DEF FilterMenus!Value, FilterMenus!Levels
  <2>3. f.level \in FilterMenus!Levels => q.level = {IF f.level = "Estagio/Trainee" THEN "Estagio" ELSE f.level}
    BY <2>1, <2>2
  <2> QED
    BY <2>3 DEF FilterMenus!Levels
<1>8. q.order = {f.order} \ {"default"}
  BY <1>1, <1>2, <1>4 DEF FilterMenus!Value, FilterMenus!Orders
<1> QED
  BY <1>2, <1>3, <1>4, <1>5, <1>6, <1>7, <1>8 DEF IsRead

LEMMA AnsweredStill == ASSUME AnswerIsOfScreen, parsed' = parsed, screen' = screen PROVE AnswerIsOfScreen'
BY DEF AnswerIsOfScreen, IsRead, FilterMenus!TypesOf, FilterMenus!Levels

LEMMA EffectsKeepLink == ASSUME FiltersInv, FilterMenus!Effects PROVE InLink'
<1>1. url \in [filter : FilterMenus!Filter, job : {"j1"} \cup {None}]
  BY DEF FiltersInv, FilterMenus!FTypeOK, FilterMenus!Link
<1>2. (rendering' <=> url' # url) /\ screen' = screen
  BY Zenon DEF FilterMenus!Effects
<1>3. CASE url.job # None
  <2>1. url' = [url EXCEPT !.job = None]
    BY <1>3 DEF FilterMenus!Effects, FilterMenus!WithoutJob
  <2>2. url' # url
    BY <1>1, <1>3, <2>1
  <2> QED
    BY <1>2, <2>2 DEF InLink
<1>4. CASE url.job = None
  <2>1. url' = [url EXCEPT !.filter = screen.filter]
    BY <1>4 DEF FilterMenus!Effects, FilterMenus!Synced
  <2>2. url'.filter = screen.filter /\ url'.job = None
    BY <1>1, <1>4, <2>1
  <2> QED
    BY <1>2, <2>2 DEF InLink
<1> QED
  BY <1>3, <1>4

LEMMA FiltersKeep == ASSUME MenuConstants, FiltersInv, FilterMenus!FNext \/ UNCHANGED filters PROVE FiltersInv'
<1>1. FilterMenus!FTypeOK'
  BY FiltersStep DEF FiltersInv, MenuConstants
<1>2. ASSUME NEW s, FilterMenus!Choose(s) PROVE (AnswerIsOfScreen /\ InLink)'
  BY <1>2 DEF FilterMenus!Choose, AnswerIsOfScreen, InLink
<1>3. CASE FilterMenus!Effects
  <2>1. parsed' = parsed /\ screen' = screen
    BY <1>3 DEF FilterMenus!Effects
  <2> QED
    BY <1>1, <1>3, <2>1, EffectsKeepLink, AnsweredStill DEF FiltersInv
<1>4. CASE FilterMenus!CloseJob
  BY <1>1, <1>4, AnsweredStill DEF FilterMenus!CloseJob, InLink, FiltersInv
<1>5. CASE FilterMenus!Search
  <2>1. screen' = screen /\ url' = url /\ rendering' = rendering
    BY <1>5 DEF FilterMenus!Search
  <2>2. screen' \in FilterMenus!Screen /\ parsed' = FilterMenus!Read(FilterMenus!Sent(FilterMenus!Asked(screen')))
    BY <1>5, <2>1 DEF FilterMenus!Search, FiltersInv, FilterMenus!FTypeOK
  <2>3. IsRead(parsed', screen')
    BY <2>2, ParsedIs
  <2>4. AnswerIsOfScreen'
    BY <2>3 DEF AnswerIsOfScreen, IsRead, FilterMenus!TypesOf, FilterMenus!Levels
  <2> QED
    BY <1>1, <2>1, <2>4 DEF InLink, FiltersInv
<1>6. CASE FilterMenus!Reload
  <2>1. parsed' = None /\ rendering' = TRUE
    BY <1>6 DEF FilterMenus!Reload
  <2> QED
    BY <1>1, <2>1 DEF AnswerIsOfScreen, InLink, FiltersInv
<1>7. ASSUME NEW j, FilterMenus!Navigate(j) PROVE (AnswerIsOfScreen /\ InLink)'
  BY <1>7, AnsweredStill DEF FilterMenus!Navigate, InLink, FiltersInv
<1>8. CASE UNCHANGED filters
  BY <1>1, <1>8, AnsweredStill DEF filters, InLink, FiltersInv
<1>9. (\E s : FilterMenus!Choose(s)) => (AnswerIsOfScreen /\ InLink)'
  BY <1>2
<1>10. FilterMenus!FNext =>
         \/ \E s : FilterMenus!Choose(s)
         \/ FilterMenus!Effects \/ FilterMenus!CloseJob \/ FilterMenus!Search \/ FilterMenus!Reload
         \/ \E j : FilterMenus!Navigate(j)
  BY Zenon DEF FilterMenus!FNext, FilterMenus!ClearFamilies, FilterMenus!ChooseLevel, FilterMenus!ChoosePlace,
     FilterMenus!ChooseOrder, FilterMenus!ChooseModel, FilterMenus!ToggleFamily
<1> QED
  BY <1>1, <1>3, <1>4, <1>5, <1>6, <1>7, <1>8, <1>9, <1>10 DEF FiltersInv

LEMMA FiltersBegin == ASSUME MenuConstants, FilterMenus!FInit PROVE FiltersInv
BY FiltersStart DEF MenuConstants, FilterMenus!FInit, FiltersInv, AnswerIsOfScreen, InLink

LEMMA FiltersAreAsked == ASSUME MenuConstants, FiltersInv
    PROVE FilterMenus!AskedIsRead /\ FilterMenus!OfferedIsAccepted /\ FilterMenus!LinkIsScreen
<1>1. screen \in FilterMenus!Screen
  BY DEF FiltersInv, FilterMenus!FTypeOK
<1>2. parsed # None => IsRead(parsed, screen)
  BY DEF FiltersInv, AnswerIsOfScreen
<1>3. FilterMenus!AskedIsRead
  BY <1>2 DEF IsRead, FilterMenus!AskedIsRead
<1>4. FilterMenus!OfferedIsAccepted
  <2>1. screen.filter.families \subseteq Areas \cup Strangers
    BY <1>1 DEF FilterMenus!Screen, FilterMenus!Filter
  <2>2. parsed # None /\ parsed.refused => ~(screen.filter.families \subseteq Areas)
    BY <1>2 DEF IsRead
  <2> QED
    BY <2>1, <2>2 DEF FilterMenus!OfferedIsAccepted
<1>5. FilterMenus!LinkIsScreen
  BY DEF FilterMenus!LinkIsScreen, FilterMenus!Mounted, FiltersInv, InLink
<1> QED
  BY <1>3, <1>4, <1>5

-----------------------------------------------------------------------------
(* The pages side by side *)

pages == <<part, panel, search, tracked, register, audit, profile, signin, dialog,
           scrapers, inventory, metrics, status, filters, listing, users, notices>>

LEMMA SearchAssumed == SearchConstants
BY MCAssumption DEF Search!RecommendationsAssumption, SearchConstants

LEMMA TrackedAssumed == TrackedConstants
<1>1. \A S : Tracked!IsFiniteSet(S) <=> IsFiniteSet(S)
  BY Zenon DEF Tracked!IsFiniteSet, IsFiniteSet
<1> QED
  BY <1>1, MCAssumption DEF Tracked!TrackedJobsAssumption, TrackedConstants

LEMMA BellAssumed == BellConstants /\ \A o \in Overviews : o.services \in Seq(STRING) /\ o.scrapers \in Seq(STRING)
BY MCAssumption DEF Bell!PanelNoticesAssumption, BellConstants

LEMMA PanelAssumed == PanelConstants
BY MCAssumption DEF Panel!AdminPanelAssumption, PanelConstants

LEMMA SignInAssumed == SignInConstants
BY MCAssumption DEF SignIn!SignInPagesAssumption, SignInConstants

LEMMA DialogAssumed == DialogConstants
BY MCAssumption DEF Dialog!JobDialogAssumption, DialogConstants

LEMMA ConsoleAssumed == ConsoleConstants
BY MCAssumption DEF Console!ScraperConsoleAssumption, ConsoleConstants

LEMMA MetricsAssumed == MetricConstants
BY MCAssumption DEF Metrics!MetricPanelsAssumption, MetricConstants

LEMMA StatusAssumed == StatusConstants
BY MCAssumption DEF Status!SystemStatusAssumption, StatusConstants

LEMMA AuditAssumed == AuditConstants
BY MCAssumption DEF Audit!AuditTrailAssumption, AuditConstants

LEMMA RegisterAssumed == RegisterConstants
BY MCAssumption DEF SignIn!SignInPagesAssumption, RegisterConstants

LEMMA FiltersAssumed == MenuConstants
<1>1. FilterMenus!IsFiniteSet(Areas) <=> IsFiniteSet(Areas)
  BY Zenon DEF FilterMenus!IsFiniteSet, IsFiniteSet
<1> QED
  BY <1>1, MCAssumption DEF FilterMenus!JobFiltersAssumption, MenuConstants, FilterConstants

LEMMA PartStands == ASSUME UNCHANGED pages
    PROVE  /\ UNCHANGED part /\ UNCHANGED panel /\ UNCHANGED search /\ UNCHANGED tracked /\ UNCHANGED register
           /\ UNCHANGED audit /\ UNCHANGED profile /\ UNCHANGED signin /\ UNCHANGED dialog /\ UNCHANGED scrapers
           /\ UNCHANGED inventory /\ UNCHANGED metrics /\ UNCHANGED status /\ UNCHANGED filters
           /\ UNCHANGED listing /\ UNCHANGED users /\ UNCHANGED notices
BY DEF pages

LEMMA SearchStepOfMC == ASSUME MCNext \/ UNCHANGED pages PROVE Search!RNext \/ UNCHANGED search
BY PartStands DEF MCNext

LEMMA SearchIsKept == MCSpec => []SearchInv
<1>1. MCInit => SearchInv
  <2>1. MCInit => Search!RInit
    BY DEF MCInit, SearchRest
  <2> QED
    BY <2>1, SearchAssumed, SearchStart
<1>2. SearchInv /\ [MCNext]_pages => SearchInv'
  BY SearchAssumed, SearchStep, SearchStepOfMC
<1> QED
  BY <1>1, <1>2, PTL DEF MCSpec, pages

LEMMA TrackedIsKept == MCSpec => []TrackedInv
<1>1. MCInit => TrackedInv
  <2>1. MCInit => Tracked!TInit
    BY DEF MCInit, TrackedRest
  <2> QED
    BY <2>1, TrackedAssumed, TrackedStart
<1>2. MCNext \/ UNCHANGED pages => Tracked!TNext \/ UNCHANGED tracked
  BY PartStands DEF MCNext
<1>3. TrackedInv /\ [MCNext]_pages => TrackedInv'
  BY <1>2, TrackedAssumed, TrackedStep
<1> QED
  BY <1>1, <1>3, PTL DEF MCSpec, pages

LEMMA BellIsKept == MCSpec => []BellInv
<1>1. MCInit => BellInv
  <2>1. MCInit => Bell!NInit
    BY DEF MCInit
  <2> QED
    BY <2>1, BellAssumed, BellStart
<1>2. MCNext \/ UNCHANGED pages => Bell!NNext \/ UNCHANGED notices
  BY PartStands DEF MCNext
<1>3. BellInv /\ [MCNext]_pages => BellInv'
  BY <1>2, BellAssumed, BellStep
<1> QED
  BY <1>1, <1>3, PTL DEF MCSpec, pages

LEMMA PanelIsKept == MCSpec => []PanelInv
<1>1. MCInit => PanelInv
  <2>1. MCInit => Panel!Init
    BY DEF MCInit, PanelRest
  <2> QED
    BY <2>1, PanelAssumed, PanelStart
<1>2. MCNext \/ UNCHANGED pages => Panel!Next \/ UNCHANGED panel
  BY PartStands DEF MCNext
<1>3. PanelInv /\ [MCNext]_pages => PanelInv'
  BY <1>2, PanelAssumed, PanelStep
<1> QED
  BY <1>1, <1>3, PTL DEF MCSpec, pages

LEMMA SignInIsKept == MCSpec => []SignInInv
<1>1. MCInit => SignInInv
  <2>1. MCInit => SignIn!SInit
    BY DEF MCInit, SignInRest
  <2> QED
    BY <2>1, SignInAssumed, SignInStart
<1>2. MCNext \/ UNCHANGED pages => SignIn!SNext \/ UNCHANGED signin
  BY PartStands DEF MCNext
<1>3. SignInInv /\ [MCNext]_pages => SignInInv'
  BY <1>2, SignInAssumed, SignInStep
<1> QED
  BY <1>1, <1>3, PTL DEF MCSpec, pages

LEMMA DialogIsKept == MCSpec => []DialogInv
<1>1. MCInit => DialogInv
  <2>1. MCInit => Dialog!JInit
    BY DEF MCInit, DialogRest
  <2> QED
    BY <2>1, DialogAssumed, DialogStart
<1>2. MCNext \/ UNCHANGED pages => Dialog!JNext \/ UNCHANGED dialog
  BY PartStands DEF MCNext
<1>3. DialogInv /\ [MCNext]_pages => DialogInv'
  BY <1>2, DialogAssumed, DialogStep
<1> QED
  BY <1>1, <1>3, PTL DEF MCSpec, pages

LEMMA ConsoleIsKept == MCSpec => []ConsoleInv
<1>1. MCInit => ConsoleInv
  <2>1. MCInit => Console!CInit
    BY DEF MCInit, ConsoleRest
  <2> QED
    BY <2>1, ConsoleAssumed, ConsoleStart
<1>2. MCNext \/ UNCHANGED pages => Console!CNext \/ UNCHANGED Console!cvars
  BY PartStands DEF MCNext, scrapers, Console!cvars
<1>3. ConsoleInv /\ [MCNext]_pages => ConsoleInv'
  BY <1>2, ConsoleAssumed, ConsoleStep
<1> QED
  BY <1>1, <1>3, PTL DEF MCSpec, pages

LEMMA MetricsIsKept == MCSpec => []MetricInv
<1>1. MCInit => MetricInv
  <2>1. MCInit => Metrics!MInit
    BY DEF MCInit
  <2> QED
    BY <2>1, MetricsAssumed, MetricsStart
<1>2. MCNext \/ UNCHANGED pages => Metrics!MNext \/ UNCHANGED metrics
  BY PartStands DEF MCNext
<1>3. MetricInv /\ [MCNext]_pages => MetricInv'
  BY <1>2, MetricsAssumed, MetricsStep
<1> QED
  BY <1>1, <1>3, PTL DEF MCSpec, pages

LEMMA StatusIsKept == MCSpec => []StatusInv
<1>1. MCInit => StatusInv
  <2>1. MCInit => Status!SInit
    BY DEF MCInit, StatusRest
  <2> QED
    BY <2>1, StatusAssumed, StatusStart
<1>2. MCNext \/ UNCHANGED pages => Status!SNext \/ UNCHANGED status
  BY PartStands DEF MCNext
<1>3. StatusInv /\ [MCNext]_pages => StatusInv'
  BY <1>2, StatusAssumed, StatusStep
<1> QED
  BY <1>1, <1>3, PTL DEF MCSpec, pages

\* What a page presents is what there was to be told when it was last told: the panel's data
\* was read for who is signed in, the history of a job is of the job that is open, what the
\* page of the scrapers says of a request is what became of it, the series are of the range
\* that is chosen, what is not marked as old was answered last, the bell lists what this
\* opening of it asked for; and nothing that says it is waiting has nothing to wait for.
THEOREM ReadIsHonest == MCSpec => []ReadingIsHonest
<1>1. PanelInv => Panel!ReadingIsHonest
  BY PanelAssumed, PanelIsHonest
<1>2. SignInInv => SignIn!ComesHome /\ SignIn!FormIsFreed
  BY SignInAssumed, SignInIsHonest
<1>3. DialogInv => Dialog!HistoryIsCurrent
  BY DialogAssumed, DialogIsCurrent
<1>4. ConsoleInv => Console!ToldIsTrue /\ Console!StartIsFreed
  BY ConsoleAssumed, ConsoleIsTrue
<1>5. MetricInv => Metrics!SeriesOfRange
  BY MetricsAssumed, SeriesAreOfRange
<1>6. StatusInv => Status!StatusIsHonest
  BY StatusAssumed, StatusIsTold
<1>7. BellInv => Bell!BellIsCurrent
  BY DEF BellInv, Listed, Bell!BellIsCurrent
<1>8. PanelInv /\ SignInInv /\ DialogInv /\ ConsoleInv /\ MetricInv /\ StatusInv /\ BellInv => ReadingIsHonest
  BY <1>1, <1>2, <1>3, <1>4, <1>5, <1>6, <1>7 DEF ReadingIsHonest
<1> QED
  BY <1>8, PanelIsKept, SignInIsKept, DialogIsKept, ConsoleIsKept, MetricsIsKept, StatusIsKept, BellIsKept, PTL

LEMMA RaisedAreShown == BellInv => Bell!RaisedIsShown
<1> SUFFICES ASSUME BellInv PROVE Bell!RaisedIsShown
  OBVIOUS
<1>1. Raised /\ raised \in Nat
  BY DEF BellInv, Raised
<1>2. PICK z \in Nat : z = Len(stack) /\ DOMAIN stack = 1..z
  BY <1>1 DEF Raised, IsStack
<1>3. \A id : id \in Bell!Entries(stack) <=> IsOver(id)
  BY DEF Bell!Entries, IsOver
<1>4. \A id : id \in Bell!Entries(timers) <=> TimeRuns(id)
  BY DEF Bell!Entries, TimeRuns
<1>5. \A id : IsOver(id) => id \in 1..raised
  BY <1>1 DEF Raised, IsStack, IsOver
<1>6. \A id \in 1..raised : id \in Bell!Entries(timers) /\ id \notin closed /\ raised - id < StackMost => id \in Bell!Entries(stack)
  BY <1>1, <1>3, <1>4 DEF Raised
<1>7. Bell!Entries(stack) \subseteq Bell!Entries(timers) \ closed
  BY <1>1, <1>3, <1>4, <1>5 DEF Raised
<1>8. ASSUME NEW i \in 2..Len(stack) PROVE stack[i - 1] > stack[i]
  <2>1. i \in 1..z /\ i - 1 \in 1..z /\ i - 1 < i
    BY ONLY <1>2, <1>8, z \in Nat
  <2> QED
    BY <1>1, <1>2, <2>1 DEF Raised, IsStack
<1> QED
  BY <1>6, <1>7, <1>8 DEF Bell!RaisedIsShown

\* A notice of the browser itself is never beside another that reads the same, however the
\* feeds of the server and what the user does interleave; a notice over the panel is there
\* until its time is up or it is dismissed, newest first.
THEOREM NoticesAreOnce == MCSpec => []NoticeOnce
<1>1. TrackedInv => Tracked!NoticeOnce
  BY DEF TrackedInv, InMenu, IsMenu, Tracked!NoticeOnce
<1>2. TrackedInv /\ BellInv => NoticeOnce
  BY <1>1, RaisedAreShown DEF NoticeOnce
<1> QED
  BY <1>2, TrackedIsKept, BellIsKept, PTL

\* Whoever was refused the series asks for none: of all steps only Poll does, which looks
\* at the refusal first.
LEMMA RefusedStep ==
    ASSUME Metrics!MNext \/ UNCHANGED metrics
    PROVE  graphs.refused /\ graphs'.session = graphs.session => polled' = polled
<1>1. Metrics!MNext => polled' = polled \/ Metrics!Poll
  BY Zenon DEF Metrics!MNext, Metrics!NextSession, Metrics!ShowAll, Metrics!ChooseRange, Metrics!Answer, Metrics!Refuse,
     Metrics!Deadline, Metrics!PickSeries
<1>2. Metrics!Poll /\ graphs.refused => polled' = polled
  BY DEF Metrics!Poll, Metrics!Refused
<1> QED
  BY <1>1, <1>2 DEF metrics

\* What is shown as the result of a search is of the filters on the screen, and no answer
\* that comes late replaces a newer one; who was refused the series asks for them no more.
THEOREM AsChosen == MCSpec => SearchedAsChosen
<1>1. SearchInv => Search!SearchedAsChosen
  BY DEF SearchInv, IsOfScreen, Search!SearchedAsChosen
<1>2. SearchInv /\ [MCNext]_pages => [shown' # shown => shown'.id = last /\ shown.id < last]_(Search!rvars)
  <2>1. SearchInv /\ (MCNext \/ UNCHANGED pages) => (shown' # shown => shown'.id = last /\ shown.id < last)
    BY ShownStep, SearchStepOfMC
  <2> QED
    BY <2>1
<1>3. [MCNext]_pages => [graphs.refused /\ graphs'.session = graphs.session => polled' = polled]_(Metrics!mvars)
  <2>1. MCNext \/ UNCHANGED pages => Metrics!MNext \/ UNCHANGED metrics
    BY PartStands DEF MCNext
  <2>2. MCNext \/ UNCHANGED pages => (graphs.refused /\ graphs'.session = graphs.session => polled' = polled)
    BY <2>1, RefusedStep
  <2> QED
    BY <2>2
<1>4. MCSpec => Search!ShownNeverGoesBack
  BY <1>2, SearchIsKept, PTL DEF MCSpec, pages, Search!ShownNeverGoesBack
<1>5. MCSpec => Metrics!RefusedAsksNoMore
  BY <1>3, PTL DEF MCSpec, pages, Metrics!RefusedAsksNoMore
<1>6. MCSpec => [](part = "search" => Search!SearchedAsChosen)
  BY <1>1, SearchIsKept, PTL
<1> QED
  BY <1>4, <1>5, <1>6 DEF SearchedAsChosen

LEMMA AuditIsKept == MCSpec => []AuditInv
<1>1. MCInit => AuditInv
  <2>1. MCInit => Audit!AInit
    BY DEF MCInit, AuditRest
  <2> QED
    BY <2>1, AuditAssumed, AuditStart
<1>2. MCNext \/ UNCHANGED pages => Audit!ANext \/ UNCHANGED audit
  BY PartStands DEF MCNext
<1>3. AuditInv /\ [MCNext]_pages => AuditInv'
  BY <1>2, AuditAssumed, AuditStep
<1> QED
  BY <1>1, <1>3, PTL DEF MCSpec, pages

\* Whatever order the two queries of a listing and the listings themselves are answered in,
\* the audit page shows what its filter and its page number ask for, and a page that exists.
THEOREM AuditListsWhatIsAsked == MCSpec => []Audit!ListIsAsked
<1>1. AuditInv => Audit!ListIsAsked
  BY AuditAssumed, AuditIsAsked
<1> QED
  BY <1>1, AuditIsKept, PTL

LEMMA FiltersAreKept == MCSpec => []FiltersInv
<1>1. MCInit => FiltersInv
  <2>1. MCInit => FilterMenus!FInit
    BY DEF MCInit, FiltersRest
  <2> QED
    BY <2>1, FiltersAssumed, FiltersBegin
<1>2. MCNext \/ UNCHANGED pages => FilterMenus!FNext \/ UNCHANGED filters
  BY PartStands DEF MCNext
<1>3. FiltersInv /\ [MCNext]_pages => FiltersInv'
  BY <1>2, FiltersAssumed, FiltersKeep
<1> QED
  BY <1>1, <1>3, PTL DEF MCSpec, pages

\* What the backend reads of a search is what the filters on the screen say, it refuses no
\* area that the menus offer, and once the effects are done the link stands for the filters.
THEOREM FiltersAreRead ==
    MCSpec => [](FilterMenus!AskedIsRead /\ FilterMenus!OfferedIsAccepted /\ FilterMenus!LinkIsScreen)
<1>1. FiltersInv => FilterMenus!AskedIsRead /\ FilterMenus!OfferedIsAccepted /\ FilterMenus!LinkIsScreen
  BY FiltersAssumed, FiltersAreAsked
<1> QED
  BY <1>1, FiltersAreKept, PTL

LEMMA RegisterIsKept == MCSpec => []RegisterInv
<1>1. MCInit => RegisterInv
  <2>1. MCInit => SignIn!FInit
    BY DEF MCInit
  <2> QED
    BY <2>1, RegisterBegins
<1>2. MCNext \/ UNCHANGED pages => SignIn!FNext \/ UNCHANGED register
  BY PartStands DEF MCNext
<1>3. RegisterInv /\ [MCNext]_pages => RegisterInv'
  BY <1>2, RegisterAssumed, RegisterKeeps
<1> QED
  BY <1>1, <1>3, PTL DEF MCSpec, pages

\* Whoever enters a Brazilian number, key by key, by pasting or after erasing, can send it
\* and sends that number; and an attempt to sign in or to link ends as what it was begun as.
THEOREM EnteredIsSent == MCSpec => [](SignIn!TypedIsSent /\ SignIn!IntentKept)
<1>1. RegisterInv => SignIn!TypedIsSent
  BY MeantIsSent
<1>2. SignInInv => SignIn!IntentKept
  BY DEF SignInInv, Jars, Means, SignIn!IntentKept
<1> QED
  BY <1>1, <1>2, RegisterIsKept, SignInIsKept, PTL
=============================================================================
