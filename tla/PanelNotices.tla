---------------------------- MODULE PanelNotices ----------------------------
(***************************************************************************)
(* The notices of the administration panel: the bell of the header, which  *)
(* asks for the overview at every opening and lists what it reports        *)
(* (front_admin: NotificationButton), and the notices any page raises over *)
(* the page for a while (NotificationProvider).  The overview itself is    *)
(* SystemStatus'.                                                          *)
(***************************************************************************)
EXTENDS Naturals, Sequences, Listings

CONSTANTS Overviews, \* answers there may be: [services, scrapers], sequences of statuses
          ListMost,  \* notices the bell lists (5)
          StackMost, \* notices over the page (4)
          MaxOpens, MaxRaised, None

PanelNoticesAssumption ==
    /\ {ListMost, StackMost, MaxOpens, MaxRaised} \subseteq Nat \ {0}
    /\ \A o \in Overviews : o.services \in Seq(STRING) /\ o.scrapers \in Seq(STRING)

VARIABLES
    bell,    \* isOpen, isLoading, notifications, and the number of the opening they are of
    opening, \* openings so far
    replies, \* openings whose overview is still to come
    stack,   \* notifications over the page, by the number in which they were raised
    timers,  \* raised ones whose time has not run out, oldest first
    raised, closed \* how many were raised; those that were dismissed by hand (history)

nvars == <<bell, opening, replies, stack, timers, raised, closed>>

NTypeOK ==
    /\ bell.open \in BOOLEAN /\ bell.loading \in BOOLEAN /\ Len(bell.list) <= ListMost /\ bell.of \in 0..opening
    /\ opening \in 0..MaxOpens /\ replies \subseteq 1..opening
    /\ raised \in 0..MaxRaised /\ Entries(stack) \cup Entries(timers) \cup closed \subseteq 1..raised /\ Len(stack) <= StackMost

-----------------------------------------------------------------------------
\* buildNotifications: services first, then scrapers, and good news only without any other.
OfServices(o) == Only(o.services, {"degraded", "down"})
OfScrapers(o) == Only(o.scrapers, {"running", "down"})
BuildNotifications(o) ==
    LET all == OfServices(o) \o OfScrapers(o)
    IN  IF all = <<>> THEN <<"healthy">> ELSE SubSeq(all, 1, IF Len(all) < ListMost THEN Len(all) ELSE ListMost)

\* The bell is clicked, or the page beside it.  What it listed before stays until the answer.
Open ==
    /\ ~bell.open /\ opening < MaxOpens /\ opening' = opening + 1 /\ replies' = replies \cup {opening + 1}
    /\ bell' = [bell EXCEPT !.open = TRUE, !.loading = TRUE]
    /\ UNCHANGED <<stack, timers, raised, closed>>
Close == bell.open /\ bell' = [bell EXCEPT !.open = FALSE] /\ UNCHANGED <<opening, replies, stack, timers, raised, closed>>

\* Mutant: an answer counts as long as the bell is open.
AnyOpening(k) == bell.open
\* ignore
IsOfOpening(k) == bell.open /\ k = opening

\* The overview, or an error, whenever it comes.
GetOverview ==
    \E k \in replies :
      /\ replies' = replies \ {k}
      /\ \E list \in {BuildNotifications(o) : o \in Overviews} \cup {<<"unavailable">>} :
           bell' = IF IsOfOpening(k) THEN [bell EXCEPT !.loading = FALSE, !.list = list, !.of = k] ELSE bell
      /\ UNCHANGED <<opening, stack, timers, raised, closed>>

-----------------------------------------------------------------------------
\* Mutant: the notices that are there are kept, rather than the new one.
KeepOldest(s) == SubSeq(s, 1 + (IF Len(s) > StackMost THEN Len(s) - StackMost ELSE 0), Len(s))
KeepNewest(s) == SubSeq(s, 1, IF Len(s) > StackMost THEN StackMost ELSE Len(s))

\* notify: by a click on what the bell lists (openNotification), or by any page.
Notify ==
    /\ raised < MaxRaised /\ raised' = raised + 1
    /\ stack' = KeepNewest(<<raised'>> \o stack) /\ timers' = Append(timers, raised')
    /\ UNCHANGED <<bell, opening, replies, closed>>

Without(id) == Only(stack, (1..raised) \ {id})
Dismiss(id) ==
    /\ id \in Entries(stack) /\ stack' = Without(id) /\ closed' = closed \cup {id}
    /\ UNCHANGED <<bell, opening, replies, timers, raised>>

\* All wait equally long; the timer of one that is gone removes nothing.
TimeIsUp ==
    /\ timers # <<>> /\ timers' = Tail(timers) /\ stack' = Without(Head(timers))
    /\ UNCHANGED <<bell, opening, replies, raised, closed>>

NInit ==
    /\ bell = [open |-> FALSE, loading |-> FALSE, list |-> <<>>, of |-> 0] /\ opening = 0 /\ replies = {}
    /\ stack = <<>> /\ timers = <<>> /\ raised = 0 /\ closed = {}

NNext == Open \/ Close \/ GetOverview \/ Notify \/ TimeIsUp \/ \E id \in 1..MaxRaised : Dismiss(id)
NSpec == NInit /\ [][NNext]_nvars

-----------------------------------------------------------------------------
\* What the open bell lists, once it no longer says that it loads, was asked for at this
\* opening, and it is never empty then.
BellIsCurrent == bell.open /\ ~bell.loading => bell.of = opening /\ bell.list # <<>>

\* A notice is over the page until its time is up or it is dismissed, unless as many as fit
\* were raised after it; the newest is the first.
RaisedIsShown ==
    /\ \A id \in 1..raised : id \in Entries(timers) /\ id \notin closed /\ raised - id < StackMost => id \in Entries(stack)
    /\ Entries(stack) \subseteq Entries(timers) \ closed
    /\ \A i \in 2..Len(stack) : stack[i - 1] > stack[i]
=============================================================================
