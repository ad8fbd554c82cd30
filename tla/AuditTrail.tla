------------------------------ MODULE AuditTrail ------------------------------
(***************************************************************************)
(* The audit trail: rows the backend writes without waiting (modules/admin *)
(* /audit) and the page that lists them by filters and pages (front_admin, *)
(* AuditPage).  A listing is two queries the database answers in any       *)
(* order, and is itself written to the trail; answers reach the page in    *)
(* any order.                                                              *)
(***************************************************************************)
EXTENDS Naturals, Sequences, Listings

CONSTANTS Actions,            \* what is audited; one of them is "audit.read"
          Limit,              \* rows on a page
          MaxRows, MaxLoads,  \* bounds on the trail and on the requests of the page
          None

AuditTrailAssumption == "audit.read" \in Actions /\ Limit \in Nat \ {0} /\ {MaxRows, MaxLoads} \subseteq Nat

VARIABLES
    trail,    \* rows in the order of created_at: their actions
    writing,  \* rows still to be written
    filter,   \* "all", an action, or "invalid": an actorId that is no UUID yet
    offset,
    loads,    \* requests under way: [id, filter, offset, rows, total], None if not read yet
    sent,     \* requests so far; the last one is the active one
    list,     \* logs and total, and what they were asked for
    loading, error

avars == <<trail, writing, filter, offset, loads, sent, list, loading, error>>
wanted == <<filter, offset, sent>>
shown == <<list, loading, error>>

MenuItems == Actions \cup {"all", "invalid"}

ATypeOK ==
    /\ trail \in Seq(Actions) /\ Len(trail) <= MaxRows /\ writing \in Seq(Actions)
    /\ filter \in MenuItems /\ offset \in Nat /\ sent \in 0..MaxLoads
    /\ \A l \in loads : l.id \in 1..sent /\ l.filter \in MenuItems
    /\ list.filter \in MenuItems /\ list.offset \in Nat /\ list.total \in Nat
    /\ loading \in BOOLEAN /\ error \in BOOLEAN

-----------------------------------------------------------------------------
\* What is done is written to the trail later, in any order, or never.
Audited(action) == writing' = Append(writing, action)

Done(action) ==
    /\ Len(trail) + Len(writing) < MaxRows /\ Audited(action)
    /\ UNCHANGED <<trail, loads, wanted, shown>>

Write(i) ==
    /\ writing' = TakenOut(writing, i)
    /\ trail' \in {Append(trail, writing[i]), trail}
    /\ UNCHANGED <<loads, wanted, shown>>

\* findMany: newest first, a page of them and their number.
Matching(f) == Backwards(Only(trail, IF f = "all" THEN Actions ELSE {f}))
PageOf(f, o) == LET s == Matching(f) IN SubSeq(s, o + 1, IF o + Limit > Len(s) THEN Len(s) ELSE o + Limit)

ReadRows(l) ==
    /\ l.filter # "invalid" /\ l.rows = None
    /\ loads' = (loads \ {l}) \cup {[l EXCEPT !.rows = PageOf(l.filter, l.offset)]}
    /\ UNCHANGED <<trail, writing, wanted, shown>>

CountRows(l) ==
    /\ l.filter # "invalid" /\ l.total = None
    /\ loads' = (loads \ {l}) \cup {[l EXCEPT !.total = Len(Matching(l.filter))]}
    /\ UNCHANGED <<trail, writing, wanted, shown>>

-----------------------------------------------------------------------------
\* The page asks again whenever a filter or the offset changes; a request before that is
\* no longer active.
Ask(f, o) ==
    /\ sent < MaxLoads /\ sent' = sent + 1
    /\ loads' = loads \cup {[id |-> sent + 1, filter |-> f, offset |-> o, rows |-> None, total |-> None]}
    /\ filter' = f /\ offset' = o /\ loading' = TRUE
    /\ UNCHANGED <<trail, writing, list, error>>

Open == sent = 0 /\ Ask("all", 0)
ChooseFilter(f) == sent > 0 /\ f # filter /\ Ask(f, 0)

\* The buttons are there while a list is shown.
CurrentPage == (offset \div Limit) + 1
TotalPages == LET n == (list.total + Limit - 1) \div Limit IN IF n = 0 THEN 1 ELSE n
NextPage == sent > 0 /\ ~loading /\ ~error /\ CurrentPage < TotalPages /\ Ask(filter, offset + Limit)
\* Mutant: the button is there on the first page too.
PreviousAlways == ~loading /\ ~error /\ Ask(filter, offset - Limit)

PreviousPage == ~loading /\ ~error /\ offset > 0 /\ Ask(filter, offset - Limit)

\* Mutant: no answer is out of date.
AnyLoad(l) == l.id \in 1..sent

\* then, catch and finally of the request's answer; a listing that succeeds is audited.
Active(l) == l.id = sent
Loaded(l) ==
    /\ l.rows # None /\ l.total # None
    /\ loads' = loads \ {l} /\ Audited("audit.read")
    /\ IF Active(l)
       THEN /\ list' = [filter |-> l.filter, offset |-> l.offset, rows |-> l.rows, total |-> l.total]
            /\ loading' = FALSE /\ error' = FALSE
       ELSE UNCHANGED shown
    /\ Len(trail) + Len(writing) < MaxRows
    /\ UNCHANGED <<trail, wanted>>

Failed(l) ==
    /\ loads' = loads \ {l}
    /\ IF Active(l) THEN loading' = FALSE /\ error' = TRUE /\ UNCHANGED list ELSE UNCHANGED shown
    /\ UNCHANGED <<trail, writing, wanted>>

-----------------------------------------------------------------------------
AInit ==
    /\ trail \in UNION {[1..n -> Actions] : n \in 0..MaxRows} /\ writing = <<>>
    /\ filter = "all" /\ offset = 0 /\ loads = {} /\ sent = 0
    /\ list = [filter |-> "all", offset |-> 0, rows |-> <<>>, total |-> 0]
    /\ loading = TRUE /\ error = FALSE

ANext ==
    \/ \E a \in Actions : Done(a)
    \/ \E i \in DOMAIN writing : Write(i)
    \/ \E l \in loads : ReadRows(l) \/ CountRows(l) \/ Loaded(l) \/ Failed(l)
    \/ Open \/ NextPage \/ PreviousPage \/ \E f \in MenuItems : ChooseFilter(f)

ASpec == AInit /\ [][ANext]_avars

-----------------------------------------------------------------------------
\* Whatever order requests are answered in, the list shown is the one the filters and the
\* page number beside it ask for: rows that match, at that place of the trail, on a page
\* that exists.
ListIsAsked ==
    ~loading /\ ~error =>
        /\ list.filter = filter /\ list.offset = offset
        /\ \A i \in DOMAIN list.rows : filter \in {"all", list.rows[i]}
        /\ CurrentPage <= TotalPages
=============================================================================
