---------------------------- MODULE MetricPanels ----------------------------
(***************************************************************************)
(* The metrics page of the administration: the backend asks Prometheus     *)
(* for every panel by itself (metrics.service), the page polls the range   *)
(* that was chosen (ObservabilityPage), each range through a resource of   *)
(* its own, and a card draws the series of one panel and keeps which one   *)
(* was picked out of them (ObservabilityPanelCard).  AdminPanel models     *)
(* how a polling resource is shared; here it has one subscriber.           *)
(***************************************************************************)
EXTENDS Integers, Sequences, FiniteSets

CONSTANTS Ranges, DefaultRange,
          Samples,      \* what Prometheus may hold for the panel of lines, by the time it is asked
          Top,          \* series drawn before all are asked for: 6
          MaxPolls,     \* bound on what the page asks for, and on how often it changes the range
          NaN, None

MetricPanelsAssumption ==
    /\ DefaultRange \in Ranges /\ Top \in Nat \ {0} /\ MaxPolls \in Nat
    /\ Samples \subseteq Seq([label : STRING, values : Seq([at : Nat, value : Nat \cup {NaN}])])

VARIABLES
    panel,  \* [session, range, resource, series, stale, forbidden, refused]
    card,   \* what the card of the panel of lines keeps: [picked, all]
    polls,  \* requests under way: [n, session, resource, range, aborted]
    polled  \* how many the page made

mvars == <<panel, card, polls, polled>>

-----------------------------------------------------------------------------
\* metrics.service.  A sample is [at, value]; a value may be no number.

Value(raw) == IF raw = NaN THEN None ELSE raw

ToSeries(result) ==
    [i \in DOMAIN result |->
        [label |-> result[i].label,
         points |-> [k \in DOMAIN result[i].values |->
                        [at |-> result[i].values[k].at, value |-> Value(result[i].values[k].value)]]]]

\* A stat is asked for by itself, now: nothing without a value, and a NaN is null in JSON.
InstantSeries(raw) ==
    IF raw = None THEN <<>> ELSE <<[label |-> "atual", points |-> <<[at |-> 0, value |-> Value(raw)]>>]>>

\* A query that fails, for whatever reason, leaves its panel empty and the others alone.
QueryRange(sample) == {ToSeries(sample), <<>>}
Query(raw) == {InstantSeries(raw), <<>>}

\* One panel of lines and one stat stand for those of DASHBOARDS.
Panels(sample, raw) == [lines : QueryRange(sample), stat : Query(raw)]

Dashboards(range) ==
    {[range |-> range, lines |-> p.lines, stat |-> p.stat] :
       p \in UNION {Panels(sample, raw) : sample \in Samples, raw \in {1, NaN, None}}}

-----------------------------------------------------------------------------
\* ObservabilityPage.

NoCard == [picked |-> None, all |-> FALSE]
FreshPanel(session) == [session |-> session, range |-> DefaultRange, resource |-> 1, series |-> None,
                        stale |-> FALSE, forbidden |-> FALSE, refused |-> FALSE]

\* Another session's page: nothing of the earlier one is left.
NextSession ==
    /\ panel.session = 1
    /\ panel' = FreshPanel(2) /\ card' = NoCard
    /\ polls' = {[p EXCEPT !.aborted = TRUE] : p \in polls}
    /\ UNCHANGED polled

\* setRange: another resource, with nothing read; the card of each panel stays.
ChooseRange(r) ==
    /\ r # panel.range /\ panel.resource <= MaxPolls
    /\ panel' = [panel EXCEPT !.range = r, !.resource = @ + 1, !.series = None, !.stale = FALSE, !.forbidden = FALSE]
    /\ polls' = {[p EXCEPT !.aborted = TRUE] : p \in polls}
    /\ UNCHANGED <<card, polled>>

\* Mutant: only the resource that was refused knows of it.
RefusedHere(p) == p.forbidden

\* load: after a refusal nothing is asked any more in this session.
Refused(p) == p.refused

\* The first reading of a resource, its interval, or a reload.
Poll ==
    /\ ~panel.forbidden /\ \A p \in polls : p.aborted
    /\ IF Refused(panel)
       THEN /\ panel' = [panel EXCEPT !.stale = TRUE, !.forbidden = TRUE, !.series = None]
            /\ UNCHANGED <<polls, polled>>
       ELSE /\ polled < MaxPolls /\ polled' = polled + 1
            /\ polls' = polls \cup {[n |-> polled + 1, session |-> panel.session, resource |-> panel.resource,
                                     range |-> panel.range, aborted |-> FALSE]}
            /\ UNCHANGED panel
    /\ UNCHANGED card

\* Whether the answer still concerns the resource the page reads.
Concerns(p) == ~p.aborted /\ p.session = panel.session /\ p.resource = panel.resource

Answer(p) ==
    /\ polls' = polls \ {p}
    /\ \/ Concerns(p) /\ \E d \in Dashboards(p.range) : panel' = [panel EXCEPT !.series = d, !.stale = FALSE]
       \/ ~Concerns(p) /\ UNCHANGED panel
       \/ Concerns(p) /\ panel' = [panel EXCEPT !.stale = TRUE]
    /\ UNCHANGED <<card, polled>>

\* 401 or 403.  A status that was read before the abort is noted all the same.
Refuse(p) ==
    /\ polls' = polls \ {p} /\ p.session = panel.session
    /\ panel' = IF Concerns(p)
                THEN [panel EXCEPT !.refused = TRUE, !.forbidden = TRUE, !.stale = TRUE, !.series = None]
                ELSE [panel EXCEPT !.refused = TRUE]
    /\ UNCHANGED <<card, polled>>

\* Eight seconds without an answer.
Deadline(p) ==
    /\ Concerns(p)
    /\ polls' = (polls \ {p}) \cup {[p EXCEPT !.aborted = TRUE]}
    /\ panel' = [panel EXCEPT !.stale = TRUE]
    /\ UNCHANGED <<card, polled>>

-----------------------------------------------------------------------------
\* ObservabilityPanelCard.

\* The shells have no series.
Lines == IF panel.series = None THEN <<>> ELSE panel.series.lines
Stat == IF panel.series = None THEN <<>> ELSE panel.series.stat

FinitePoints(s) == {k \in DOMAIN s.points : s.points[k].value # None}
Visible(p) == {i \in DOMAIN p : FinitePoints(p[i]) # {}}
Peak(s) == CHOOSE v \in {s.points[k].value : k \in FinitePoints(s)} : \A k \in FinitePoints(s) : s.points[k].value <= v

Key(p, i) == <<p[i].label, i>>

\* Series by their peaks, equal ones in the order they came.
RankOf(p, i) ==
    Cardinality({j \in Visible(p) : Peak(p[j]) > Peak(p[i]) \/ (Peak(p[j]) = Peak(p[i]) /\ j < i)})

Overview(p, all) == {i \in Visible(p) : all \/ RankOf(p, i) < Top}
Picked(p, key) == {i \in Visible(p) : Key(p, i) = key}

\* A pick that is there no longer is passed over.
Active(p, c) == IF c.picked # None /\ Picked(p, c.picked) # {} THEN Picked(p, c.picked) ELSE Overview(p, c.all)

LatestValue(s) ==
    IF FinitePoints(s) = {} THEN None
    ELSE s.points[CHOOSE k \in FinitePoints(s) : \A j \in FinitePoints(s) : j <= k].value

\* What is said above the chart: of one series its value, of several how many they are.
Headline(p, c) ==
    LET a == Active(p, c) IN
    IF Cardinality(a) > 1 THEN [series |-> Cardinality(a)]
    ELSE [value |-> IF a = {} THEN None ELSE LatestValue(p[CHOOSE i \in a : TRUE])]

\* Mutant: samples without a value are passed over, and the line goes on behind them.
JoinedOver(s) ==
    {l \in FinitePoints(s) \X FinitePoints(s) :
        l[1] < l[2] /\ \A m \in FinitePoints(s) : ~(l[1] < m /\ m < l[2])}

\* buildPath: a line from one sample to the next, both of which have a value.
Segments(s) == {l \in FinitePoints(s) \X FinitePoints(s) : l[2] = l[1] + 1}

\* LineChart: of every series that is drawn its samples and the line through them.
Drawn(p, c) == [i \in Active(p, c) |-> [points |-> FinitePoints(p[i]), line |-> Segments(p[i])]]

\* nearestPoints: the sample nearest to the pointer, the earlier of two.
Away(s, k, t) == IF s.points[k].at < t THEN t - s.points[k].at ELSE s.points[k].at - t
Nearest(s, t) ==
    CHOOSE k \in FinitePoints(s) :
        \A j \in FinitePoints(s) : Away(s, k, t) < Away(s, j, t) \/ (Away(s, k, t) = Away(s, j, t) /\ k <= j)

\* toggleSeries, on a button of the legend or out of the list of all series.
PickSeries(i) ==
    /\ i \in Active(Lines, card) \cup (IF Cardinality(Visible(Lines)) > Top THEN Visible(Lines) ELSE {})
    /\ card' = [card EXCEPT !.picked = IF @ = Key(Lines, i) THEN None ELSE Key(Lines, i)]
    /\ UNCHANGED <<panel, polls, polled>>

ShowAll ==
    /\ Cardinality(Visible(Lines)) > Top
    /\ card' = [picked |-> None, all |-> ~card.all]
    /\ UNCHANGED <<panel, polls, polled>>

MInit == panel = FreshPanel(1) /\ card = NoCard /\ polls = {} /\ polled = 0

MNext ==
    \/ NextSession \/ Poll \/ ShowAll
    \/ \E r \in Ranges : ChooseRange(r)
    \/ \E p \in polls : Answer(p) \/ Refuse(p) \/ Deadline(p)
    \/ \E i \in DOMAIN Lines : i \in Visible(Lines) /\ PickSeries(i)

MSpec == MInit /\ [][MNext]_mvars

-----------------------------------------------------------------------------
MTypeOK ==
    /\ panel.session \in {1, 2} /\ panel.range \in Ranges /\ panel.resource \in 1..(MaxPolls + 1)
    /\ panel.series = None \/ panel.series \in UNION {Dashboards(r) : r \in Ranges}
    /\ {panel.stale, panel.forbidden, panel.refused, card.all} \subseteq BOOLEAN
    /\ card.picked = None \/ card.picked[2] \in Nat
    /\ polls \subseteq [n : 1..MaxPolls, session : {1, 2}, resource : Nat, range : Ranges, aborted : BOOLEAN]
    /\ polled \in 0..MaxPolls

\* What the page shows is of the range that is chosen, whichever request answers last; who
\* was refused sees nothing, and at most one request is waited for.
SeriesOfRange ==
    /\ panel.series # None => panel.series.range = panel.range
    /\ panel.forbidden => panel.series = None
    /\ Cardinality({p \in polls : ~p.aborted}) <= 1

\* "N/D" stands for a panel none of whose queries gave a number, and for no other; a series
\* that was picked is drawn alone as long as it is there; the line has a hole where a sample
\* has no value; the pointer finds a value of every series that is drawn.
ChartIsHonest ==
    LET a == Active(Lines, card) IN
    /\ Headline(Lines, card) = [value |-> None] <=> \A i \in DOMAIN Lines : FinitePoints(Lines[i]) = {}
    /\ card.picked # None /\ Picked(Lines, card.picked) # {} => a = Picked(Lines, card.picked)
    /\ Visible(Lines) # {} => a # {} /\ Cardinality(a) <= IF card.all THEN Cardinality(Visible(Lines)) ELSE Top
    /\ \A i \in a : /\ \A s \in Drawn(Lines, card)[i].line : s[1]..s[2] \subseteq Drawn(Lines, card)[i].points
                    /\ \A t \in 0..3 : Lines[i].points[Nearest(Lines[i], t)].value # None
    /\ Headline(Stat, NoCard) = [value |-> None] <=> \A i \in DOMAIN Stat : Stat[i].points[1].value = None

\* Once a session was refused the series, it asks for them no more, whatever range it chooses.
RefusedAsksNoMore ==
    [][panel.refused /\ panel'.session = panel.session => polled' = polled]_mvars
=============================================================================
