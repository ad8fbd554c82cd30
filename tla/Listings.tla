------------------------------ MODULE Listings ------------------------------
(***************************************************************************)
(* Sequences that are sorted or filtered, by positions instead of by       *)
(* operators that are passed on: sort and filter of TypeScript keep the    *)
(* order of what they leave, and so do these.                              *)
(***************************************************************************)
EXTENDS Integers, FiniteSets, Sequences

\* The members of S as a strict order ranks them.
InOrder(S, ahead) ==
    LET before == [x \in S |-> Cardinality({y \in S : <<y, x>> \in ahead})]
    IN  [k \in 1..Cardinality(S) |-> CHOOSE x \in S : before[x] = k - 1]

Less == {p \in Nat \X Nat : p[1] < p[2]}
Ascending(S) == InOrder(S, Less)

\* The bounds of a finite set of numbers.
Least(S) == CHOOSE x \in S : \A y \in S : x <= y
Greatest(S) == CHOOSE x \in S : \A y \in S : y <= x

\* What is in s; the members of S as they come.
Entries(s) == {s[i] : i \in DOMAIN s}
InSomeOrder(S) == CHOOSE s \in [1..Cardinality(S) -> S] : Entries(s) = S

\* What s has of S.
Only(s, S) == LET kept == Ascending({i \in DOMAIN s : s[i] \in S}) IN [k \in DOMAIN kept |-> s[kept[k]]]

\* A sequence without its i-th, with x for its i-th, and from its end to its beginning.
TakenOut(s, i) == [k \in 1..(Len(s) - 1) |-> s[IF k < i THEN k ELSE k + 1]]
PutIn(s, i, x) == [k \in 1..(Len(s) + 1) |-> IF k < i THEN s[k] ELSE IF k = i THEN x ELSE s[k - 1]]
Backwards(s) == [k \in DOMAIN s |-> s[Len(s) + 1 - k]]
=============================================================================
