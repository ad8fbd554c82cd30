--------------------------- MODULE BackendProofs ---------------------------
(***************************************************************************)
(* Proofs about the components of the backend: for each an invariant that  *)
(* its steps preserve, from which the properties of MCBackend follow for   *)
(* every value of the constants.                                           *)
(***************************************************************************)
EXTENDS MCBackend, UserProofs, Sequences, FiniteSetTheorems, TLAPS

-----------------------------------------------------------------------------
(* Limits *)

Newest(k) == opened[k][Len(opened[k])]
Within(t, i) == try[t].time \in opened[try[t].key][i]..(opened[try[t].key][i] + Window - 1)
IsCounted(t) == try[t].count > 0

\* A key counts since its newest window began; its windows do not overlap.
WindowsApart(k) ==
    /\ opened[k] = <<>> <=> counter[k].count = 0
    /\ \A i \in DOMAIN opened[k] :
          /\ opened[k][i] <= clock
          /\ \A j \in DOMAIN opened[k] : i < j => opened[k][i] + Window <= opened[k][j]

\* The counter lasts at least to the end of that window.
EndsLate(k) ==
    counter[k].count > 0 /\ counter[k].until # None => Newest(k) + Window <= counter[k].until

\* What a request has got, where it is.
Placed(t) ==
    /\ try[t].at \in {"new", "count"} => ~IsCounted(t)
    /\ try[t].at \in {"expire", "ttl", "passed", "refused"} => IsCounted(t)
    /\ try[t].at \in {"count", "expire", "ttl"} => try[t].key \in Keys
    /\ try[t].at = "passed" => try[t].count <= Allowed
    /\ try[t].time <= clock

\* A request that was counted in the newest window got no more than the counter has now,
\* which has not ended since.
Remembered(t) ==
    IsCounted(t) => LET k == try[t].key
                    IN  /\ k \in Keys /\ opened[k] # <<>>
                        /\ try[t].time >= Newest(k) =>
                              /\ try[t].count <= counter[k].count
                              /\ counter[k].until # None => try[t].time < counter[k].until

\* Two requests of one window got different counts.
Distinct(t, u) ==
    t # u /\ IsCounted(t) /\ IsCounted(u) /\ try[t].key = try[u].key =>
        \A i \in DOMAIN opened[try[t].key] : Within(t, i) /\ Within(u, i) => try[t].count # try[u].count

LimitsInv ==
    /\ Path!MTypeOK
    /\ \A k \in Keys : WindowsApart(k) /\ EndsLate(k)
    /\ \A t \in Requests : Placed(t) /\ Remembered(t)
    /\ \A t, u \in Requests : Distinct(t, u)

LEMMA LimitsConstants == /\ Allowed \in Nat \ {0} /\ Window \in Nat \ {0} /\ MaxClock \in Nat /\ None \notin Keys
BY MCAssumption DEF Path!LimitsAssumption

LEMMA LimitsStart == ASSUME Path!MInit PROVE LimitsInv
<1> USE LimitsConstants DEF Path!MInit
<1>1. Path!MTypeOK
  BY DEF Path!MTypeOK, Path!Gone, Path!Count
<1>2. ASSUME NEW k \in Keys PROVE WindowsApart(k) /\ EndsLate(k)
  BY DEF WindowsApart, EndsLate, Path!Gone
<1>3. ASSUME NEW t \in Requests PROVE Placed(t) /\ Remembered(t) /\ try[t].count = 0
  BY DEF Placed, Remembered, IsCounted
<1> QED
  BY <1>1, <1>2, <1>3 DEF LimitsInv, Distinct, IsCounted

\* A request that was not counted, or is not counted now, disturbs nobody.
LEMMA LimitsMove ==
    ASSUME LimitsInv, NEW t \in Requests, UNCHANGED <<shared, clock, counter, opened>>,
           try' = [try EXCEPT ![t] = try'[t]], Path!MTypeOK', try'[t].count = try[t].count, try'[t].time = try[t].time,
           IsCounted(t) => try'[t].key = try[t].key, Placed(t)'
    PROVE  LimitsInv'
<1> USE LimitsConstants
<1>1. ASSUME NEW u \in Requests PROVE try'[u].count = try[u].count /\ try'[u].time = try[u].time
                                      /\ (IsCounted(u) => try'[u].key = try[u].key)
  BY DEF LimitsInv, Path!MTypeOK
<1>2. ASSUME NEW u \in Requests, u # t PROVE try'[u] = try[u]
  BY <1>2 DEF LimitsInv, Path!MTypeOK
<1>3. ASSUME NEW k \in Keys PROVE WindowsApart(k)' /\ EndsLate(k)'
  BY DEF LimitsInv, WindowsApart, EndsLate, Newest
<1>4. ASSUME NEW u \in Requests PROVE Placed(u)' /\ Remembered(u)'
  <2>1. Placed(u)'
    BY <1>2 DEF LimitsInv, Placed, IsCounted
  <2>2. Remembered(u)'
    BY <1>1 DEF LimitsInv, Remembered, IsCounted, Newest
  <2> QED
    BY <2>1, <2>2
<1>5. ASSUME NEW u \in Requests, NEW w \in Requests PROVE Distinct(u, w)'
  BY <1>1 DEF LimitsInv, Distinct, IsCounted, Within
<1> QED
  BY <1>3, <1>4, <1>5 DEF LimitsInv

LEMMA OneMore ==
    ASSUME NEW S, NEW s \in Seq(S), NEW e \in S
    PROVE  /\ Append(s, e) # <<>> /\ Len(Append(s, e)) = Len(s) + 1 /\ Append(s, e)[Len(s) + 1] = e
           /\ DOMAIN Append(s, e) = DOMAIN s \cup {Len(s) + 1}
           /\ \A i \in DOMAIN s : Append(s, e)[i] = s[i]
OBVIOUS

\* What counting a request does to its key: its count goes up by one, or a window begins.
Tally(t, until) ==
    LET k == try[t].key
    IN  /\ k \in Keys /\ try[t].at = "count"
        /\ counter' = [counter EXCEPT ![k] = IF Path!Over(k) THEN [count |-> 1, until |-> until]
                                             ELSE [counter[k] EXCEPT !.count = @ + 1]]

TalliedAt(k, t, until, next) ==
    /\ counter' \in [Keys -> Path!Count] /\ k \in Keys
    /\ \A l \in Keys \ {k} : counter'[l] = counter[l] /\ opened'[l] = opened[l]
    /\ try'[t].key = k /\ try'[t].at = next /\ try'[t].time = clock
    /\ try'[t].count = counter'[k].count /\ counter'[k].count > 0
    /\ \A u \in Requests \ {t} : try'[u] = try[u]
    /\ Path!Over(k) => counter'[k] = [count |-> 1, until |-> until] /\ opened'[k] = Append(opened[k], clock)
    /\ ~Path!Over(k) => /\ counter'[k].count = counter[k].count + 1 /\ counter'[k].until = counter[k].until
                        /\ opened'[k] = opened[k] /\ counter[k].count > 0
                        /\ (counter[k].until # None => clock < counter[k].until)
    /\ Path!MTypeOK'
Tallied(t, until, next) == TalliedAt(try[t].key, t, until, next)

LEMMA TallyEffect ==
    ASSUME LimitsInv, NEW t \in Requests, NEW until \in Nat \cup {None}, Tally(t, until),
           NEW next \in {"expire", "ttl", "passed", "refused"}, Path!Counted(t, next), UNCHANGED <<shared, clock>>
    PROVE  Tallied(t, until, next)
<1> DEFINE k == try[t].key
           Tallies == [count : Nat, until : Nat \cup {None}]
<1> USE LimitsConstants
<1>1. Path!MTypeOK /\ k \in Keys
  BY DEF LimitsInv, Tally
<1>2. /\ counter \in [Keys -> Tallies] /\ opened \in [Keys -> Seq(0..MaxClock)] /\ clock \in 0..MaxClock
      /\ clock \in Nat /\ Path!Count = Tallies
  BY <1>1 DEF Path!MTypeOK, Path!Count
<1>3. /\ try \in [Requests -> [key : Keys \cup {None}, count : Nat, time : 0..MaxClock,
                               at : {"new", "count", "expire", "ttl", "passed", "refused", "failed"}]]
      /\ shared' \in BOOLEAN
  BY <1>1 DEF Path!MTypeOK
<1> HIDE DEF Tallies
<1>4. counter[k] \in Tallies /\ counter[k].count \in Nat /\ counter[k].until \in Nat \cup {None}
  BY <1>1, <1>2 DEF Tallies
<1>5. ASSUME Path!Over(k)
      PROVE  /\ counter' \in [Keys -> Tallies] /\ opened' \in [Keys -> Seq(0..MaxClock)]
             /\ \A l \in Keys \ {k} : counter'[l] = counter[l] /\ opened'[l] = opened[l]
             /\ counter'[k] = [count |-> 1, until |-> until] /\ opened'[k] = Append(opened[k], clock)
  <2>1. counter' = [counter EXCEPT ![k] = [count |-> 1, until |-> until]]
    BY <1>5 DEF Tally
  <2>2. [count |-> 1, until |-> until] \in Tallies
    BY DEF Tallies
  <2>3. counter'[k] = [count |-> 1, until |-> until] /\ \A l \in Keys \ {k} : counter'[l] = counter[l]
    BY <2>1, <1>1, <1>2
  <2>4. counter' \in [Keys -> Tallies]
    BY <2>1, <2>2, <1>1, <1>2
  <2>5. opened' = [opened EXCEPT ![k] = Append(@, clock)]
    BY <2>3 DEF Path!Counted
  <2>6. /\ opened' \in [Keys -> Seq(0..MaxClock)] /\ opened'[k] = Append(opened[k], clock)
        /\ \A l \in Keys \ {k} : opened'[l] = opened[l]
    BY <2>5, <1>1, <1>2
  <2> QED
    BY <1>5, <2>3, <2>4, <2>6
<1>6. ASSUME ~Path!Over(k)
      PROVE  /\ counter' \in [Keys -> Tallies] /\ opened' = opened
             /\ \A l \in Keys \ {k} : counter'[l] = counter[l]
             /\ counter'[k].count = counter[k].count + 1 /\ counter'[k].until = counter[k].until
             /\ counter[k].count > 0 /\ (counter[k].until # None => clock < counter[k].until)
  <2> DEFINE more == [counter[k] EXCEPT !.count = @ + 1]
  <2>1. counter' = [counter EXCEPT ![k] = more]
    BY <1>6 DEF Tally
  <2>2. more \in Tallies /\ more.count = counter[k].count + 1 /\ more.until = counter[k].until
    BY <1>4 DEF Tallies
  <2> HIDE DEF more
  <2>3. counter'[k] = more /\ counter' \in [Keys -> Tallies] /\ \A l \in Keys \ {k} : counter'[l] = counter[l]
    BY <2>1, <2>2, <1>1, <1>2
  <2>4. counter[k].count > 0 /\ (counter[k].until # None => clock < counter[k].until)
    BY <1>2, <1>4, <1>6 DEF Path!Over
  <2>5. opened' = opened
    BY <1>4, <2>2, <2>3, <2>4 DEF Path!Counted
  <2> QED
    BY <2>2, <2>3, <2>4, <2>5
<1>7. /\ counter' \in [Keys -> Tallies] /\ opened' \in [Keys -> Seq(0..MaxClock)]
      /\ counter'[k].count \in Nat /\ counter'[k].count > 0
      /\ \A l \in Keys \ {k} : counter'[l] = counter[l] /\ opened'[l] = opened[l]
  BY SMTT(60), <1>1, <1>2, <1>4, <1>5, <1>6
<1>8. /\ try'[t].key = k /\ try'[t].at = next /\ try'[t].time = clock /\ try'[t].count = counter'[k].count
      /\ \A u \in Requests \ {t} : try'[u] = try[u]
      /\ try' \in [Requests -> [key : Keys \cup {None}, count : Nat, time : 0..MaxClock,
                                at : {"new", "count", "expire", "ttl", "passed", "refused", "failed"}]]
  <2>1. try' = [try EXCEPT ![t].count = counter'[k].count, ![t].time = clock, ![t].at = next]
    BY DEF Path!Counted
  <2>2. try[t] \in [key : Keys \cup {None}, count : Nat, time : 0..MaxClock,
                     at : {"new", "count", "expire", "ttl", "passed", "refused", "failed"}]
    BY <1>3
  <2> DEFINE next_try == [try[t] EXCEPT !.count = counter'[k].count, !.time = clock, !.at = next]
  <2>3. /\ next_try.key = k /\ next_try.at = next /\ next_try.time = clock /\ next_try.count = counter'[k].count
        /\ next_try \in [key : Keys \cup {None}, count : Nat, time : 0..MaxClock,
                         at : {"new", "count", "expire", "ttl", "passed", "refused", "failed"}]
    BY <2>2, <1>2, <1>7
  <2>4. try' = [try EXCEPT ![t] = next_try]
    BY <2>1
  <2> HIDE DEF next_try
  <2> QED
    BY <2>3, <2>4, <1>3
<1>9. Path!MTypeOK'
  BY <1>2, <1>3, <1>7, <1>8 DEF Path!MTypeOK, Path!Count, Tallies
<1>10. Path!Over(k) => counter'[k] = [count |-> 1, until |-> until] /\ opened'[k] = Append(opened[k], clock)
  BY <1>5
<1>11. ~Path!Over(k) => /\ counter'[k].count = counter[k].count + 1 /\ counter'[k].until = counter[k].until
                           /\ opened'[k] = opened[k] /\ counter[k].count > 0
                           /\ (counter[k].until # None => clock < counter[k].until)
  BY <1>1, <1>6
<1>12. counter' \in [Keys -> Path!Count]
  BY <1>2, <1>7 DEF Path!Count, Tallies
<1> QED
  BY <1>1, <1>7, <1>8, <1>9, <1>10, <1>11, <1>12 DEF Tallied, TalliedAt

LEMMA LimitsTally ==
    ASSUME LimitsInv, NEW t \in Requests, NEW until \in Nat \cup {None}, Tally(t, until),
           NEW next \in {"expire", "ttl", "passed", "refused"}, Path!Counted(t, next), UNCHANGED <<shared, clock>>,
           until # None => clock + Window <= until,
           NEW k, try[t].key = k,
           next = "passed" => counter'[k].count <= Allowed
    PROVE  LimitsInv'
<1> USE LimitsConstants
<1>0. TalliedAt(k, t, until, next)
  BY TallyEffect DEF Tallied
<1>1. /\ k \in Keys /\ Path!MTypeOK' /\ counter' \in [Keys -> Path!Count]
      /\ \A l \in Keys \ {k} : counter'[l] = counter[l] /\ opened'[l] = opened[l]
      /\ try'[t].key = k /\ try'[t].at = next /\ try'[t].time = clock
      /\ try'[t].count = counter'[k].count /\ counter'[k].count > 0
      /\ \A u \in Requests \ {t} : try'[u] = try[u]
  BY <1>0 DEF TalliedAt
<1>2. Path!Over(k) => counter'[k] = [count |-> 1, until |-> until] /\ opened'[k] = Append(opened[k], clock)
  BY <1>0 DEF TalliedAt
<1>3. ~Path!Over(k) => /\ counter'[k].count = counter[k].count + 1 /\ counter'[k].until = counter[k].until
                          /\ opened'[k] = opened[k] /\ counter[k].count > 0
                          /\ (counter[k].until # None => clock < counter[k].until)
  BY <1>0 DEF TalliedAt
<1>4. /\ clock \in Nat /\ clock' = clock /\ counter[k].count \in Nat /\ counter[k].until \in Nat \cup {None}
      /\ \A l \in Keys : opened[l] \in Seq(0..MaxClock)
      /\ \A u \in Requests : try[u].count \in Nat /\ try[u].time \in Nat
      /\ WindowsApart(k) /\ EndsLate(k) /\ ~IsCounted(t)
  BY <1>1 DEF LimitsInv, Path!MTypeOK, Path!Count, Placed, Tally
<1>5. opened[k] # <<>> => Len(opened[k]) \in DOMAIN opened[k] /\ Newest(k) \in 0..MaxClock /\ Newest(k) \in Nat
  BY <1>1, <1>4 DEF Newest
<1>6. Path!Over(k) => /\ opened'[k] # <<>> /\ Len(opened'[k]) = Len(opened[k]) + 1
                         /\ opened'[k][Len(opened[k]) + 1] = clock
                         /\ DOMAIN opened'[k] = DOMAIN opened[k] \cup {Len(opened[k]) + 1}
                         /\ \A i \in DOMAIN opened[k] : opened'[k][i] = opened[k][i]
  BY SMTT(60), <1>1, <1>2, <1>4, OneMore DEF LimitsInv, Path!MTypeOK
\* When a window begins, all earlier ones are over.
<1>7. ASSUME Path!Over(k), NEW i \in DOMAIN opened[k] PROVE opened[k][i] + Window <= clock
  <2>1. counter[k].count > 0 /\ counter[k].until # None /\ counter[k].until <= clock
    BY <1>4, <1>7 DEF WindowsApart, Path!Over
  <2>2. Newest(k) + Window <= clock
    BY <1>4, <1>5, <1>7, <2>1 DEF EndsLate, WindowsApart
  <2>3. CASE i = Len(opened[k])
    BY <2>2, <2>3 DEF Newest
  <2>4. CASE i # Len(opened[k])
    <3>1. i < Len(opened[k]) /\ Len(opened[k]) \in DOMAIN opened[k]
      BY <1>1, <1>4, <1>7, <2>4
    <3>2. opened[k][i] + Window <= Newest(k) /\ opened[k][i] \in Nat
      BY <1>1, <1>4, <1>7, <3>1 DEF WindowsApart, Newest
    <3> QED
      BY <2>2, <3>2, <1>4, <1>5, <1>7
  <2> QED
    BY <2>3, <2>4
<1>8. ASSUME NEW l \in Keys PROVE WindowsApart(l)' /\ EndsLate(l)'
  <2>1. CASE l # k
    BY <1>1, <1>4, <2>1 DEF LimitsInv, WindowsApart, EndsLate, Newest
  <2>2. CASE l = k /\ ~Path!Over(k)
    <3>1. WindowsApart(k)'
      BY <1>1, <1>3, <1>4, <2>2 DEF WindowsApart
    <3>2. EndsLate(k)'
      BY <1>1, <1>3, <1>4, <2>2 DEF EndsLate, Newest
    <3> QED
      BY <2>2, <3>1, <3>2
  <2>3. CASE l = k /\ Path!Over(k)
    <3>1. /\ opened'[k] = Append(opened[k], clock) /\ Len(opened'[k]) = Len(opened[k]) + 1
          /\ opened'[k][Len(opened'[k])] = clock
          /\ \A i \in DOMAIN opened[k] : opened'[k][i] = opened[k][i]
          /\ DOMAIN opened'[k] = DOMAIN opened[k] \cup {Len(opened[k]) + 1} /\ opened'[k] # <<>>
          /\ counter'[k].count = 1 /\ counter'[k].until = until
      BY <1>2, <1>6, <2>3
    <3>2. WindowsApart(k)'
      <4>1. ASSUME NEW i \in DOMAIN opened'[k]
            PROVE  /\ opened'[k][i] <= clock
                   /\ \A j \in DOMAIN opened'[k] : i < j => opened'[k][i] + Window <= opened'[k][j]
        <5>1. CASE i \in DOMAIN opened[k]
          BY SMTT(60), <1>1, <1>4, <1>7, <2>3, <3>1, <5>1 DEF WindowsApart
        <5>2. CASE i = Len(opened[k]) + 1
          BY <1>1, <1>4, <3>1, <5>2
        <5> QED
          BY <3>1, <5>1, <5>2
      <4> QED
        BY SMTT(60), <1>4, <3>1, <4>1 DEF WindowsApart
    <3>3. EndsLate(k)'
      BY <1>4, <3>1 DEF EndsLate, Newest
    <3> QED
      BY <2>3, <3>2, <3>3
  <2> QED
    BY <2>1, <2>2, <2>3
<1>9. ASSUME NEW u \in Requests PROVE Placed(u)'
  <2>1. CASE u = t
    BY <1>1, <1>4, <2>1 DEF Placed, IsCounted
  <2>2. CASE u # t
    BY <1>1, <1>4, <2>2 DEF LimitsInv, Placed, IsCounted
  <2> QED
    BY <2>1, <2>2
\* Nobody counted before is in a window that begins now, and in the newest one nobody has the count given now.
<1>10. ASSUME NEW u \in Requests \ {t}, IsCounted(u), try[u].key = k
      PROVE  /\ opened[k] # <<>>
             /\ Path!Over(k) => try[u].time < clock
             /\ ~Path!Over(k) /\ try[u].time >= Newest(k) => try[u].count < counter'[k].count
  <2>1. Remembered(u) /\ try[u].time <= clock
    BY DEF LimitsInv, Placed
  <2>2. opened[k] # <<>> /\ (try[u].time >= Newest(k) => /\ try[u].count <= counter[k].count
                                                         /\ counter[k].until # None => try[u].time < counter[k].until)
    BY <1>10, <2>1 DEF Remembered
  <2>3. ASSUME Path!Over(k) PROVE try[u].time < clock
    <3>1. Newest(k) + Window <= clock /\ counter[k].count > 0 /\ counter[k].until <= clock /\ counter[k].until # None
      BY SMTT(60), <1>1, <1>4, <1>5, <1>7, <2>2, <2>3 DEF WindowsApart, Path!Over, Newest
    <3> QED
      BY <1>4, <1>5, <2>1, <2>2, <3>1
  <2> QED
    BY <1>3, <1>4, <2>2, <2>3
<1>11. ASSUME NEW u \in Requests PROVE Remembered(u)'
  <2>1. CASE u = t
    <3>1. try'[u].key = k /\ opened'[k] # <<>> /\ try'[u].count <= counter'[k].count /\ try'[u].time = clock
      BY <1>1, <1>2, <1>3, <1>4, <2>1 DEF WindowsApart, Path!Over, LimitsInv, Path!MTypeOK, Path!Count
    <3>2. counter'[k].until # None => clock < counter'[k].until
      BY <1>1, <1>2, <1>3, <1>4
    <3> QED
      BY <1>1, <3>1, <3>2 DEF Remembered
  <2>2. CASE u # t /\ IsCounted(u) /\ try[u].key = k
    <3>1. /\ try'[u] = try[u] /\ opened[k] # <<>> /\ Remembered(u) /\ u \in Requests \ {t}
          /\ counter'[k].count \in Nat
      BY <1>1, <1>10, <2>2 DEF LimitsInv, Path!Count
    <3>2. CASE Path!Over(k)
      <4>1. Newest(k)' = clock /\ opened'[k] # <<>> /\ try[u].time < clock
        BY <1>4, <1>10, <1>6, <2>2, <3>1, <3>2 DEF Newest
      <4> QED
        BY <1>1, <1>4, <2>2, <3>1, <4>1 DEF Remembered
    <3>3. CASE ~Path!Over(k)
      <4>1. Newest(k)' = Newest(k) /\ opened'[k] = opened[k]
        BY <1>3, <3>3 DEF Newest
      <4>2. try[u].time >= Newest(k) => try[u].count < counter'[k].count /\ (counter[k].until # None => try[u].time < counter[k].until)
        BY <1>10, <2>2, <3>1, <3>3 DEF Remembered
      <4> QED
        BY SMTT(60), <1>1, <1>3, <1>4, <2>2, <3>1, <3>3, <4>1, <4>2 DEF Remembered
    <3> QED
      BY <3>2, <3>3
  <2>3. CASE u # t /\ IsCounted(u) /\ try[u].key # k
    BY <1>1, <2>3 DEF LimitsInv, Remembered, IsCounted, Newest
  <2>4. CASE u # t /\ ~IsCounted(u)
    BY <1>1, <2>4 DEF Remembered, IsCounted
  <2> QED
    BY <2>1, <2>2, <2>3, <2>4
\* Two requests in one window.
<1>12. ASSUME NEW u \in Requests \ {t} PROVE Distinct(t, u)' /\ Distinct(u, t)'
  <2> SUFFICES ASSUME IsCounted(u), try[u].key = k,
                      NEW i \in DOMAIN opened'[k],
                      clock \in opened'[k][i]..(opened'[k][i] + Window - 1),
                      try[u].time \in opened'[k][i]..(opened'[k][i] + Window - 1)
               PROVE  try[u].count # counter'[k].count
    BY <1>1 DEF Distinct, IsCounted, Within
  <2>1. u \in Requests \ {t} /\ try[u].time \in Nat /\ try[u].count \in Nat /\ counter'[k].count \in Nat /\ Window \in Nat
    BY <1>1, <1>4 DEF Path!Count
  <2>2. CASE Path!Over(k)
    <3>1. try[u].time < clock
      BY <1>10, <2>2
    <3>2. CASE i \in DOMAIN opened[k]
      <4>1. opened'[k][i] = opened[k][i] /\ opened[k][i] + Window <= clock
        BY <1>6, <1>7, <2>2, <3>2
      <4>2. opened[k] \in Seq(0..MaxClock)
        BY <1>1, <1>4
      <4>3. opened[k][i] \in Nat
        BY <3>2, <4>2
      <4> QED
        BY <1>4, <2>1, <4>1, <4>3
    <3>3. CASE i = Len(opened[k]) + 1
      <4>1. opened'[k][i] = clock
        BY <1>6, <2>2, <3>3
      <4> QED
        BY <1>4, <2>1, <3>1, <4>1
    <3> QED
      BY <1>6, <2>2, <3>2, <3>3
  <2>3. CASE ~Path!Over(k)
    <3>1. opened'[k] = opened[k] /\ opened[k] # <<>> /\ i \in DOMAIN opened[k] /\ opened[k][i] \in Nat
      BY SMTT(60), <1>1, <1>3, <1>4, <1>10, <2>1, <2>3
    <3>2. CASE i = Len(opened[k])
      <4>1. try[u].time >= Newest(k)
        BY <1>4, <2>1, <3>1, <3>2 DEF Newest
      <4> QED
        BY <1>10, <2>1, <2>3, <4>1
    <3>3. CASE i # Len(opened[k])
      <4>1. i < Len(opened[k]) /\ Len(opened[k]) \in DOMAIN opened[k]
        BY <1>1, <1>4, <3>1, <3>3
      <4>2. opened[k][i] + Window <= Newest(k) /\ Newest(k) <= clock
        BY <1>4, <3>1, <4>1 DEF WindowsApart, Newest
      <4> QED
        BY <1>4, <1>5, <2>1, <3>1, <4>2
    <3> QED
      BY <3>2, <3>3
  <2> QED
    BY <2>2, <2>3
<1>13. ASSUME NEW u \in Requests, NEW w \in Requests, u # t, w # t PROVE Distinct(u, w)'
  <2> SUFFICES ASSUME u # w, IsCounted(u), IsCounted(w), try[u].key = try[w].key,
                      NEW i \in DOMAIN opened'[try[u].key], Within(u, i)', Within(w, i)'
               PROVE  try[u].count # try[w].count
    BY <1>1, <1>13 DEF Distinct, IsCounted
  <2>1. try'[u] = try[u] /\ try'[w] = try[w] /\ Distinct(u, w)
    BY <1>1, <1>13 DEF LimitsInv
  <2>2. CASE try[u].key # k \/ ~Path!Over(k)
    <3>1. opened'[try[u].key] = opened[try[u].key]
      BY <1>1, <1>3, <2>2 DEF LimitsInv, Remembered
    <3> QED
      BY <2>1, <3>1 DEF Distinct, Within
  <2>3. CASE try[u].key = k /\ Path!Over(k)
    <3>1. CASE i \in DOMAIN opened[k]
      <4>1. opened'[k][i] = opened[k][i]
        BY <1>6, <2>3, <3>1
      <4> QED
        BY <2>1, <2>3, <3>1, <4>1 DEF Distinct, Within
    <3>2. CASE i = Len(opened[k]) + 1
      <4>1. opened'[k][i] = clock /\ try[u].time < clock /\ try[u].time \in Nat
        BY <1>4, <1>10, <1>13, <1>6, <2>3, <3>2
      <4> QED
        BY <1>4, <2>1, <2>3, <4>1 DEF Within
    <3> QED
      BY <1>6, <2>3, <3>1, <3>2
  <2> QED
    BY <2>2, <2>3
<1>14. ASSUME NEW u \in Requests, NEW w \in Requests PROVE Distinct(u, w)'
  BY <1>12, <1>13 DEF Distinct
<1> QED
  BY <1>1, <1>8, <1>9, <1>11, <1>14 DEF LimitsInv

LEMMA LimitsStep == ASSUME LimitsInv, Path!MNext PROVE LimitsInv'
<1> USE LimitsConstants
<1>1. /\ Path!MTypeOK /\ clock \in Nat /\ \A t \in Requests : Placed(t)
      /\ \A k \in Keys : counter[k].count \in Nat /\ counter[k].until \in Nat \cup {None}
  BY DEF LimitsInv, Path!MTypeOK, Path!Count
<1>2. ASSUME NEW t \in Requests, NEW k \in Keys, Path!Begin(t, k) PROVE LimitsInv'
  <2>1. /\ try' = [try EXCEPT ![t].key = k, ![t].at = "count"] /\ try[t].at = "new"
        /\ UNCHANGED <<shared, clock, counter, opened>>
    BY <1>2 DEF Path!Begin
  <2>2. ~IsCounted(t)
    BY <1>1, <2>1 DEF Placed
  <2>3. /\ try'[t].count = try[t].count /\ try'[t].time = try[t].time /\ try'[t].key = k /\ try'[t].at = "count"
        /\ try' = [try EXCEPT ![t] = try'[t]] /\ Path!MTypeOK'
    BY <1>1, <2>1 DEF Path!MTypeOK
  <2>4. Placed(t)'
    BY <1>1, <2>1, <2>2, <2>3 DEF Placed, IsCounted
  <2> QED
    BY <2>1, <2>2, <2>3, <2>4, LimitsMove
<1>3. ASSUME NEW t \in Requests, Path!ConsumeFromMemory(t) PROVE LimitsInv'
  <2>1. PICK k : k = try[t].key
    OBVIOUS
  <2>2. /\ counter' = [counter EXCEPT ![k] = IF Path!Over(k) THEN [count |-> 1, until |-> clock + Window]
                                             ELSE [counter[k] EXCEPT !.count = @ + 1]]
        /\ Path!Counted(t, Path!Verdict(counter'[k].count))
        /\ try[t].at = "count" /\ UNCHANGED <<shared, clock>>
    BY <1>3, <2>1 DEF Path!ConsumeFromMemory
  <2>3. k \in Keys /\ clock + Window \in Nat /\ Tally(t, clock + Window)
    BY <1>1, <2>1, <2>2 DEF Placed, Tally
  <2>4. counter'[k].count \in Nat
    BY <1>1, <2>2, <2>3 DEF Path!MTypeOK, Path!Count
  <2>5. /\ Path!Verdict(counter'[k].count) \in {"passed", "refused"}
        /\ Path!Verdict(counter'[k].count) = "passed" => counter'[k].count <= Allowed
    BY <2>4 DEF Path!Verdict
  <2> QED
    BY <1>1, <2>1, <2>2, <2>3, <2>5, LimitsTally
<1>4. ASSUME NEW t \in Requests, Path!Incr(t) PROVE LimitsInv'
  <2>1. PICK k : k = try[t].key
    OBVIOUS
  <2>2. /\ counter' = [counter EXCEPT ![k] = IF Path!Over(k) THEN [count |-> 1, until |-> None]
                                             ELSE [counter[k] EXCEPT !.count = @ + 1]]
        /\ Path!Counted(t, IF counter'[k].count = 1 THEN "expire" ELSE "ttl")
        /\ try[t].at = "count" /\ UNCHANGED <<shared, clock>>
    BY <1>4, <2>1 DEF Path!Incr
  <2>3. k \in Keys /\ Tally(t, None)
    BY <1>1, <2>1, <2>2 DEF Placed, Tally
  <2> QED
    BY <2>1, <2>2, <2>3, LimitsTally
<1>5. ASSUME NEW t \in Requests, NEW next \in {"ttl", "passed", "refused", "failed"},
             try' = [try EXCEPT ![t].at = next], UNCHANGED <<shared, clock>>,
             next \in {"passed", "refused", "ttl"} => IsCounted(t) /\ try[t].key \in Keys,
             next = "passed" => try[t].count <= Allowed, UNCHANGED <<counter, opened>>
      PROVE  LimitsInv'
  <2>0. PICK T : T = [key : Keys \cup {None}, count : Nat, time : 0..MaxClock,
                      at : {"new", "count", "expire", "ttl", "passed", "refused", "failed"}]
    OBVIOUS
  <2>3. try \in [Requests -> T] /\ try[t] \in T
    BY <1>1, <2>0 DEF Path!MTypeOK
  <2>4. PICK n : n = [try[t] EXCEPT !.at = next]
    OBVIOUS
  <2>5. n \in T /\ n.count = try[t].count /\ n.time = try[t].time /\ n.key = try[t].key /\ n.at = next
    BY ONLY <1>5, <2>0, <2>3, <2>4, next \in {"ttl", "passed", "refused", "failed"}
  <2>6. try' = [try EXCEPT ![t] = n] /\ try' \in [Requests -> T] /\ try'[t] = n
    BY ONLY <1>5, <2>3, <2>4, <2>5, t \in Requests
  <2>1. /\ try'[t].count = try[t].count /\ try'[t].time = try[t].time /\ try'[t].key = try[t].key /\ try'[t].at = next
        /\ try' = [try EXCEPT ![t] = try'[t]] /\ Path!MTypeOK'
    BY <1>1, <1>5, <2>0, <2>5, <2>6 DEF Path!MTypeOK
  <2>2. Placed(t)'
    BY <1>1, <1>5, <2>1 DEF Placed, IsCounted
  <2> QED
    BY <1>5, <2>1, <2>2, LimitsMove
<1>6. ASSUME NEW t \in Requests, Path!Decide(t) PROVE LimitsInv'
  <2>1. try[t].at = "ttl" /\ IsCounted(t) /\ try[t].key \in Keys /\ try[t].count \in Nat
    BY <1>1, <1>6 DEF Path!Decide, Placed, Path!MTypeOK
  <2>2. /\ Path!Verdict(try[t].count) \in {"passed", "refused"}
        /\ Path!Verdict(try[t].count) = "passed" => try[t].count <= Allowed
    BY <2>1 DEF Path!Verdict
  <2> QED
    BY <1>5, <1>6, <2>1, <2>2 DEF Path!Decide
<1>7. ASSUME NEW t \in Requests, Path!Unavailable(t) PROVE LimitsInv'
  BY <1>5, <1>7 DEF Path!Unavailable
<1>8. ASSUME NEW t \in Requests, Path!Expire(t) PROVE LimitsInv'
  <2>1. PICK k : k = try[t].key
    OBVIOUS
  <2>2. /\ try[t].at = "expire" /\ k \in Keys /\ IsCounted(t) /\ UNCHANGED <<shared, clock, opened>>
        /\ try' = [try EXCEPT ![t].at = "ttl"]
    BY <1>1, <1>8, <2>1 DEF Path!Expire, Placed
  <2> DEFINE until == IF counter[k].until = None \/ counter[k].until > clock THEN clock + Window ELSE counter[k].until
             later == [counter[k] EXCEPT !.until = until]
  <2>3. counter' = [counter EXCEPT ![k] = later]
    BY <1>8, <2>1 DEF Path!Expire
  <2>4. /\ counter[k] \in Path!Count /\ until \in Nat \cup {None} /\ counter \in [Keys -> Path!Count]
        /\ \A c \in Path!Count : c.count \in Nat
    BY <1>1, <2>2 DEF Path!MTypeOK, Path!Count
  <2>5. later \in Path!Count /\ later.count = counter[k].count /\ later.until = until
    BY <2>4 DEF Path!Count
  <2> HIDE DEF later
  <2>6. /\ counter' \in [Keys -> Path!Count] /\ counter'[k].count = counter[k].count /\ counter'[k].until = until
        /\ \A l \in Keys \ {k} : counter'[l] = counter[l]
    BY <2>2, <2>3, <2>4, <2>5
  <2>7. counter[k].until # None /\ ~(counter[k].until > clock) => counter'[k].until = counter[k].until
    BY <2>6
  <2>8. counter[k].until = None \/ counter[k].until > clock => counter'[k].until = clock + Window
    BY <2>6
  <2> HIDE DEF until
  <2>9. Path!MTypeOK' /\ \A u \in Requests : /\ try'[u].count = try[u].count /\ try'[u].time = try[u].time
                                                /\ try'[u].key = try[u].key
                                                /\ try'[u].at = IF u = t THEN "ttl" ELSE try[u].at
    BY <1>1, <2>2, <2>6 DEF Path!MTypeOK
  <2>10. ASSUME NEW l \in Keys PROVE WindowsApart(l)' /\ EndsLate(l)'
    <3>1. WindowsApart(l) /\ EndsLate(l)
      BY DEF LimitsInv
    <3>2. WindowsApart(l)'
      BY <2>2, <2>6, <3>1 DEF WindowsApart
    <3>3. CASE l # k
      BY <2>2, <2>6, <3>1, <3>2, <3>3 DEF EndsLate, Newest
    <3>4. CASE l = k
      <4>1. counter[k].count > 0 => Newest(k) <= clock /\ Newest(k) \in Nat
        BY <1>1, <2>2, <3>1, <3>4 DEF WindowsApart, Newest, Path!MTypeOK
      <4>2. EndsLate(k)'
        BY <1>1, <2>2, <2>6, <2>7, <2>8, <3>1, <3>4, <4>1 DEF EndsLate, Newest
      <4> QED
        BY <3>2, <3>4, <4>2
    <3> QED
      BY <3>3, <3>4
  <2>11. ASSUME NEW u \in Requests PROVE Placed(u)' /\ Remembered(u)'
    <3>1. Placed(u) /\ Remembered(u) /\ try[u].time \in Nat
      BY DEF LimitsInv, Path!MTypeOK
    <3>2. Placed(u)'
      BY <2>1, <2>2, <2>9, <3>1 DEF Placed, IsCounted
    <3>3. CASE try[u].key # k
      <4>1. PICK l : l = try[u].key
        OBVIOUS
      <4>2. l \in Keys => Newest(l)' = Newest(l) /\ counter'[l] = counter[l]
        BY <2>2, <2>6, <3>3, <4>1 DEF Newest
      <4> QED
        BY <2>2, <2>9, <3>1, <3>2, <4>1, <4>2 DEF Remembered, IsCounted
    <3>4. CASE try[u].key = k
      <4>1. IsCounted(u) /\ try[u].time >= Newest(k) => (counter'[k].until # None => try[u].time < counter'[k].until)
        BY <1>1, <2>2, <2>7, <2>8, <3>1, <3>4 DEF Remembered, Placed
      <4>2. Newest(k)' = Newest(k)
        BY <2>2 DEF Newest
      <4> QED
        BY <2>2, <2>6, <2>9, <3>1, <3>2, <3>4, <4>1, <4>2 DEF Remembered, IsCounted
    <3> QED
      BY <3>2, <3>3, <3>4
  <2>12. ASSUME NEW u \in Requests, NEW w \in Requests PROVE Distinct(u, w)'
    BY <2>2, <2>9 DEF LimitsInv, Distinct, IsCounted, Within
  <2> QED
    BY <2>9, <2>10, <2>11, <2>12 DEF LimitsInv
<1>9. ASSUME Path!Tick PROVE LimitsInv'
  <2>1. /\ clock' = clock + 1 /\ clock' \in Nat /\ clock < clock' /\ UNCHANGED <<shared, counter, try, opened>>
        /\ Path!MTypeOK'
    BY <1>1, <1>9 DEF Path!Tick, Path!MTypeOK
  <2>2. ASSUME NEW k \in Keys PROVE WindowsApart(k)' /\ EndsLate(k)'
    <3>1. \A i \in DOMAIN opened[k] : opened[k][i] \in Nat
      BY <1>1 DEF Path!MTypeOK
    <3> QED
      BY <1>1, <2>1, <3>1 DEF LimitsInv, WindowsApart, EndsLate, Newest
  <2>3. ASSUME NEW t \in Requests PROVE Placed(t)' /\ Remembered(t)'
    BY SMTT(60), <1>1, <2>1 DEF LimitsInv, Placed, Remembered, IsCounted, Newest, Path!MTypeOK
  <2>4. ASSUME NEW t \in Requests, NEW u \in Requests PROVE Distinct(t, u)'
    BY <2>1 DEF LimitsInv, Distinct, IsCounted, Within
  <2> QED
    BY <2>1, <2>2, <2>3, <2>4 DEF LimitsInv
<1> QED
  BY <1>2, <1>3, <1>4, <1>6, <1>7, <1>8, <1>9 DEF Path!MNext

LEMMA LimitsKept == ASSUME LimitsInv PROVE Path!OnlySoMany
<1> USE LimitsConstants
<1>1. ASSUME NEW k \in Keys, NEW i \in DOMAIN opened[k]
      PROVE  Cardinality({t \in Requests : /\ try[t].key = k /\ try[t].at = "passed"
                                           /\ try[t].time \in opened[k][i]..(opened[k][i] + Window - 1)}) <= Allowed
  <2> DEFINE S == {t \in Requests : /\ try[t].key = k /\ try[t].at = "passed"
                                    /\ try[t].time \in opened[k][i]..(opened[k][i] + Window - 1)}
             f == [t \in S |-> try[t].count]
  <2>1. ASSUME NEW t \in S PROVE try[t].count \in 1..Allowed
    BY DEF LimitsInv, Placed, IsCounted, Path!MTypeOK
  <2>2. ASSUME NEW t \in S, NEW u \in S, t # u PROVE try[t].count # try[u].count
    BY <2>2 DEF LimitsInv, Distinct, Within, Placed, IsCounted
  <2> HIDE DEF S
  <2>3. f \in [S -> 1..Allowed] /\ IsInjective(f)
    BY <2>1, <2>2 DEF IsInjective
  <2>4. f \in Injection(S, 1..Allowed)
    BY <2>3 DEF Injection
  <2>5. IsFiniteSet(1..Allowed) /\ Cardinality(1..Allowed) = Allowed
    BY FS_Interval
  <2>6. Cardinality(S) <= Allowed
    BY <2>4, <2>5, FS_Injection
  <2> QED
    BY <2>6 DEF S
<1> QED
  BY <1>1, Zenon DEF Path!OnlySoMany, Path!Cardinality, Cardinality

-----------------------------------------------------------------------------
(* OnDemandSearch *)

\* The key of the cadence outlasts the turn of the run that was let in last.
GateIsKept ==
    /\ gate \in Nat /\ pulled \in Seq(Nat)
    /\ pulled # <<>> => pulled[Len(pulled)] + Cadence <= gate

DemandInv ==
    /\ Demand!OTypeOK /\ GateIsKept
    /\ Demand!CollectsOnlyWhatIsMissing /\ Demand!SourceIsSpared

Visits == [at : {"idle", "do", "waits", "answered", "failed"}, key : Searches \cup {None}, gone : BOOLEAN]
Flights == [leader : Searchers, lost : BOOLEAN, outcome : {"error", "answer"},
            at : {"recheck", "acquire", "gate", "scrape", "set", "release", "finish"}]

LEMMA DemandConstants == /\ Ttl \in Nat \ {0} /\ Cadence \in Nat \ {0} /\ MaxTime \in Nat /\ MaxErrors \in Nat
BY MCAssumption DEF Demand!OnDemandSearchAssumption

LEMMA DemandTypes ==
    Demand!OTypeOK <=> /\ visit \in [Searchers -> Visits] /\ flight \in [Searches -> {None} \cup Flights]
                       /\ holder \in Searches \cup {"scheduler", None}
                       /\ answers \in [Searches -> 1..(MaxTime + Ttl) \cup {None}]
                       /\ now \in 0..MaxTime /\ errors \in 0..MaxErrors
BY DEF Demand!OTypeOK, Visits, Flights

LEMMA DemandTypesNext ==
    ASSUME visit' \in [Searchers -> Visits], flight' \in [Searches -> {None} \cup Flights],
           holder' \in Searches \cup {"scheduler", None},
           answers' \in [Searches -> 1..(MaxTime + Ttl) \cup {None}],
           now' \in 0..MaxTime, errors' \in 0..MaxErrors
    PROVE  Demand!OTypeOK'
BY DEF Demand!OTypeOK, Visits, Flights

LEMMA DemandStart == ASSUME Demand!OInit PROVE DemandInv
<1> USE DemandConstants DEF Demand!OInit
<1>1. Demand!OTypeOK
  <2>1. visit \in [Searchers -> Visits]
    <3> DEFINE fresh == [at |-> "idle", key |-> None, gone |-> FALSE]
               missed == [at : {"do"}, key : Searches, gone : {FALSE}]
    <3>1. fresh \in Visits /\ \A m \in missed : m \in Visits
      BY DEF Visits
    <3>2. visit \in [Searchers -> {fresh} \cup missed]
      OBVIOUS
    <3> HIDE DEF fresh, missed
    <3> QED
      BY <3>1, <3>2
  <2>2. /\ flight \in [Searches -> {None} \cup Flights] /\ holder \in Searches \cup {"scheduler", None}
        /\ answers \in [Searches -> 1..(MaxTime + Ttl) \cup {None}]
        /\ now \in 0..MaxTime /\ errors \in 0..MaxErrors
    OBVIOUS
  <2> QED
    BY <2>1, <2>2, DemandTypes
<1>2. GateIsKept /\ Demand!CollectsOnlyWhatIsMissing /\ Demand!SourceIsSpared
  BY DEF GateIsKept, Demand!CollectsOnlyWhatIsMissing, Demand!SourceIsSpared
<1> QED
  BY <1>1, <1>2 DEF DemandInv

\* A run that the gate is asked for.
LEMMA PassesKeep ==
    ASSUME GateIsKept, now \in Nat, Demand!SourceIsSpared, Demand!Passes
    PROVE  GateIsKept' /\ Demand!SourceIsSpared'
<1> USE DemandConstants
<1>1. CASE gate <= now
  <2>1. gate' = now + Cadence /\ pulled' = Append(pulled, now)
    BY <1>1 DEF Demand!Passes, Demand!GateIsOpen
  <2>2. /\ pulled' \in Seq(Nat) /\ Len(pulled') = Len(pulled) + 1 /\ pulled'[Len(pulled')] = now
        /\ \A i \in 1..Len(pulled) : pulled'[i] = pulled[i] /\ pulled[i] \in Nat
    BY <2>1 DEF GateIsKept
  <2>3. GateIsKept'
    BY <2>1, <2>2 DEF GateIsKept
  <2>4. ASSUME NEW i \in 2..Len(pulled') PROVE pulled'[i] - pulled'[i - 1] >= Cadence
    <3>1. CASE i <= Len(pulled)
      <4>1. i \in 2..Len(pulled) /\ i \in 1..Len(pulled) /\ i - 1 \in 1..Len(pulled)
        BY <2>2, <2>4, <3>1 DEF GateIsKept
      <4> QED
        BY <2>2, <4>1 DEF Demand!SourceIsSpared
    <3>2. CASE i = Len(pulled) + 1
      <4>1. Len(pulled) \in 1..Len(pulled) /\ pulled[Len(pulled)] + Cadence <= now
        BY <1>1, <2>2, <2>4, <3>2 DEF GateIsKept
      <4> QED
        BY <2>2, <3>2, <4>1
    <3> QED
      BY <2>2, <3>1, <3>2 DEF GateIsKept
  <2> QED
    BY <2>3, <2>4 DEF Demand!SourceIsSpared
<1>2. CASE ~(gate <= now)
  BY <1>2 DEF Demand!Passes, Demand!GateIsOpen, GateIsKept, Demand!SourceIsSpared
<1> QED
  BY <1>1, <1>2

LEMMA GateStays ==
    ASSUME GateIsKept, Demand!SourceIsSpared, UNCHANGED <<gate, pulled>>
    PROVE  GateIsKept' /\ Demand!SourceIsSpared'
BY DEF GateIsKept, Demand!SourceIsSpared

\* A flight that moves on.
LEMMA FlightGoes ==
    ASSUME Demand!OTypeOK, NEW k \in Searches, flight[k] # None,
           NEW place \in {"recheck", "acquire", "gate", "scrape", "set", "release", "finish"},
           NEW outcome \in {"error", "answer"}, Demand!Go(k, place, outcome)
    PROVE  /\ flight' \in [Searches -> {None} \cup Flights] /\ flight'[k] \in Flights /\ flight'[k].at = place
           /\ \A l \in Searches \ {k} : flight'[l] = flight[l]
<1>1. flight \in [Searches -> {None} \cup Flights] /\ flight[k] \in Flights
  BY DemandTypes
<1> DEFINE there == [flight[k] EXCEPT !.at = place, !.outcome = outcome]
<1>2. there \in Flights /\ there.at = place
  BY <1>1 DEF Flights
<1>3. flight' = [flight EXCEPT ![k] = there]
  BY DEF Demand!Go
<1> HIDE DEF there
<1> QED
  BY <1>1, <1>2, <1>3

LEMMA Faults == ASSUME errors \in 0..MaxErrors, Demand!Fault \/ Demand!NoFault PROVE errors' \in 0..MaxErrors
BY DemandConstants DEF Demand!Fault, Demand!NoFault

\* Steps of a flight that end before its answer is kept.
LEMMA FlightSteps ==
    ASSUME DemandInv, NEW k \in Searches, flight[k] # None, UNCHANGED <<visit, now>>,
           NEW place \in {"acquire", "gate", "scrape", "set", "release", "finish"},
           NEW outcome \in {"error", "answer"}, Demand!Go(k, place, outcome),
           place \in {"gate", "scrape"} => flight[k].at \in {"acquire", "gate", "scrape"},
           place = "acquire" => ~Demand!Live(k),
           UNCHANGED answers \/ (place = "release" /\ answers' = [answers EXCEPT ![k] = now + Ttl]),
           Demand!Fault \/ Demand!NoFault, holder' \in Searches \cup {"scheduler", None}
    PROVE  Demand!OTypeOK' /\ Demand!CollectsOnlyWhatIsMissing'
<1> USE DemandConstants
<1>1. Demand!OTypeOK /\ Demand!CollectsOnlyWhatIsMissing
  BY DEF DemandInv
<1>2. /\ flight' \in [Searches -> {None} \cup Flights] /\ flight'[k] \in Flights /\ flight'[k].at = place
      /\ \A l \in Searches \ {k} : flight'[l] = flight[l]
  BY <1>1, FlightGoes
<1>3. /\ now \in 0..MaxTime /\ answers \in [Searches -> 1..(MaxTime + Ttl) \cup {None}] /\ now + Ttl \in 1..(MaxTime + Ttl)
      /\ visit \in [Searchers -> Visits] /\ errors \in 0..MaxErrors
  BY <1>1, DemandTypes
<1>4. /\ answers' \in [Searches -> 1..(MaxTime + Ttl) \cup {None}]
      /\ \A l \in Searches \ {k} : answers'[l] = answers[l]
      /\ place # "release" => answers' = answers
  BY <1>3
<1>5. Demand!OTypeOK'
  BY <1>2, <1>3, <1>4, Faults, DemandTypesNext
<1>6. ASSUME NEW l \in Searches, flight'[l] # None, flight'[l].at \in {"acquire", "gate", "scrape"}
      PROVE  ~Demand!Live(l)'
  <2>1. CASE l = k
    BY <1>1, <1>2, <1>4, <1>6, <2>1 DEF Demand!CollectsOnlyWhatIsMissing, Demand!Live
  <2>2. CASE l # k
    BY <1>1, <1>2, <1>4, <1>6, <2>2 DEF Demand!CollectsOnlyWhatIsMissing, Demand!Live
  <2> QED
    BY <2>1, <2>2
<1> QED
  BY <1>5, <1>6 DEF Demand!CollectsOnlyWhatIsMissing

LEMMA DemandStep == ASSUME DemandInv, Demand!ONext PROVE DemandInv'
<1> USE DemandConstants
<1>1. /\ Demand!OTypeOK /\ Demand!CollectsOnlyWhatIsMissing /\ GateIsKept /\ Demand!SourceIsSpared
      /\ now \in 0..MaxTime /\ now \in Nat /\ errors \in 0..MaxErrors
      /\ answers \in [Searches -> 1..(MaxTime + Ttl) \cup {None}]
      /\ visit \in [Searchers -> Visits] /\ flight \in [Searches -> {None} \cup Flights]
      /\ holder \in Searches \cup {"scheduler", None}
  BY DemandTypes DEF DemandInv
<1> SUFFICES Demand!OTypeOK' /\ Demand!CollectsOnlyWhatIsMissing' /\ GateIsKept' /\ Demand!SourceIsSpared'
  BY DEF DemandInv
<1>2. ASSUME UNCHANGED <<flight, answers, now>>
      PROVE  Demand!CollectsOnlyWhatIsMissing'
  BY <1>1, <1>2 DEF Demand!CollectsOnlyWhatIsMissing, Demand!Live
<1>3. ASSUME NEW s \in Searchers, Demand!Begin(s) PROVE DemandInv'
  <2>1. UNCHANGED <<flight, holder, answers, gate, pulled, now>>
    BY <1>3 DEF Demand!Begin
  <2>2. PICK k \in Searches, place \in {"do", "answered", "failed"} :
           Demand!Keyed(s, k, place) /\ (Demand!Fault \/ Demand!NoFault)
    BY <1>3 DEF Demand!Begin
  <2> DEFINE there == [visit[s] EXCEPT !.at = place, !.key = k]
  <2>3. there \in Visits
    BY <1>1 DEF Visits
  <2>4. visit' = [visit EXCEPT ![s] = there]
    BY <2>2 DEF Demand!Keyed
  <2> HIDE DEF there
  <2>5. visit' \in [Searchers -> Visits]
    BY <1>1, <2>3, <2>4
  <2> QED
    BY <1>1, <1>2, <2>1, <2>2, <2>5, DemandTypesNext, GateStays, Faults DEF DemandInv
<1>4. ASSUME NEW s \in Searchers, Demand!Leave(s) PROVE DemandInv'
  <2> DEFINE there == [visit[s] EXCEPT !.gone = TRUE]
  <2>1. there \in Visits
    BY <1>1 DEF Visits
  <2>2. visit' = [visit EXCEPT ![s] = there] /\ UNCHANGED <<flight, holder, answers, gate, pulled, now, errors>>
    BY <1>4 DEF Demand!Leave
  <2> HIDE DEF there
  <2> QED
    BY <1>1, <1>2, <2>1, <2>2, DemandTypesNext, GateStays DEF DemandInv
<1>5. ASSUME NEW s \in Searchers, Demand!Do(s) PROVE DemandInv'
  <2> DEFINE there == [visit[s] EXCEPT !.at = "waits"]
             new == [leader |-> s, lost |-> FALSE, outcome |-> "error", at |-> "recheck"]
  <2>1. there \in Visits /\ new \in Flights /\ new.at = "recheck"
    BY <1>1 DEF Visits, Flights
  <2>2. /\ visit' = [visit EXCEPT ![s] = there] /\ UNCHANGED <<holder, answers, gate, pulled, now, errors>>
        /\ flight' = [flight EXCEPT ![visit[s].key] = IF flight[visit[s].key] = None THEN new ELSE flight[visit[s].key]]
    BY <1>5 DEF Demand!Do
  <2> HIDE DEF there, new
  <2>3. /\ visit' \in [Searchers -> Visits] /\ flight' \in [Searches -> {None} \cup Flights]
        /\ \A k \in Searches : flight'[k] = flight[k] \/ flight'[k] = new
    BY <1>1, <2>1, <2>2
  <2>4. Demand!OTypeOK'
    BY <1>1, <2>2, <2>3, DemandTypesNext
  <2>5. Demand!CollectsOnlyWhatIsMissing'
    BY <1>1, <2>1, <2>2, <2>3 DEF Demand!CollectsOnlyWhatIsMissing, Demand!Live
  <2> QED
    BY <1>1, <2>2, <2>4, <2>5, GateStays DEF DemandInv
<1>6. ASSUME NEW k \in Searches, Demand!Recheck(k) PROVE DemandInv'
  <2>1. flight[k] # None /\ UNCHANGED <<visit, holder, answers, gate, pulled, now>>
    BY <1>6 DEF Demand!Recheck, Demand!At
  <2>2. Demand!OTypeOK' /\ Demand!CollectsOnlyWhatIsMissing'
    <3>1. \/ Demand!Go(k, "finish", "error") /\ (Demand!Fault \/ Demand!NoFault)
          \/ Demand!Go(k, "finish", "answer") /\ Demand!NoFault
          \/ Demand!Go(k, "acquire", "error") /\ ~Demand!Live(k) /\ Demand!NoFault
      BY <1>6 DEF Demand!Recheck, Demand!Missing
    <3> QED
      BY <1>1, <2>1, <3>1, FlightSteps
  <2> QED
    BY <1>1, <2>1, <2>2, GateStays DEF DemandInv
<1>7. ASSUME NEW k \in Searches, Demand!Acquire(k) PROVE DemandInv'
  <2>1. flight[k] # None /\ flight[k].at = "acquire" /\ UNCHANGED <<visit, answers, gate, pulled, now>>
    BY <1>7 DEF Demand!Acquire, Demand!At
  <2>2. /\ Demand!Go(k, "gate", "error") \/ Demand!Go(k, "finish", "error")
        /\ Demand!Fault \/ Demand!NoFault
        /\ holder' \in Searches \cup {"scheduler", None}
    BY <1>1, <1>7 DEF Demand!Acquire
  <2>3. Demand!OTypeOK' /\ Demand!CollectsOnlyWhatIsMissing'
    BY <1>1, <2>1, <2>2, FlightSteps
  <2> QED
    BY <1>1, <2>1, <2>3, GateStays DEF DemandInv
<1>8. ASSUME NEW k \in Searches, Demand!Gate(k) PROVE DemandInv'
  <2>1. flight[k] # None /\ flight[k].at = "gate" /\ UNCHANGED <<visit, holder, answers, now>>
    BY <1>8 DEF Demand!Gate, Demand!At
  <2>2. /\ Demand!Go(k, "scrape", "error") /\ (Demand!Fault \/ Demand!NoFault)
        /\ Demand!Passes \/ UNCHANGED <<gate, pulled>>
    BY <1>8 DEF Demand!Gate
  <2>3. Demand!OTypeOK' /\ Demand!CollectsOnlyWhatIsMissing'
    BY <1>1, <2>1, <2>2, FlightSteps
  <2> QED
    BY <1>1, <2>2, <2>3, GateStays, PassesKeep DEF DemandInv
<1>9. ASSUME NEW k \in Searches, Demand!Scrape(k) PROVE DemandInv'
  <2>1. flight[k] # None /\ UNCHANGED <<visit, holder, answers, gate, pulled, now>>
    BY <1>9 DEF Demand!Scrape, Demand!At
  <2>2. /\ Demand!Go(k, "set", "answer") \/ Demand!Go(k, "release", "error")
        /\ Demand!Fault \/ Demand!NoFault
    BY <1>9 DEF Demand!Scrape
  <2>3. Demand!OTypeOK' /\ Demand!CollectsOnlyWhatIsMissing'
    BY <1>1, <2>1, <2>2, FlightSteps
  <2> QED
    BY <1>1, <2>1, <2>3, GateStays DEF DemandInv
<1>10. ASSUME NEW k \in Searches, Demand!Set(k) PROVE DemandInv'
  <2>1. flight[k] # None /\ UNCHANGED <<visit, holder, gate, pulled, now>>
    BY <1>10 DEF Demand!Set, Demand!At
  <2>2. /\ Demand!Go(k, "release", "answer") /\ (Demand!Fault \/ Demand!NoFault)
        /\ UNCHANGED answers \/ answers' = [answers EXCEPT ![k] = now + Ttl]
    BY <1>10 DEF Demand!Set
  <2>3. Demand!OTypeOK' /\ Demand!CollectsOnlyWhatIsMissing'
    BY <1>1, <2>1, <2>2, FlightSteps
  <2> QED
    BY <1>1, <2>1, <2>3, GateStays DEF DemandInv
<1>11. ASSUME NEW k \in Searches, Demand!Release(k) PROVE DemandInv'
  <2>1. flight[k] # None /\ flight[k] \in Flights /\ UNCHANGED <<visit, answers, gate, pulled, now>>
    BY <1>1, <1>11 DEF Demand!Release, Demand!At
  <2>2. /\ Demand!Go(k, "finish", flight[k].outcome) \/ Demand!Go(k, "finish", "error")
        /\ Demand!Fault \/ Demand!NoFault
        /\ holder' \in Searches \cup {"scheduler", None} /\ flight[k].outcome \in {"error", "answer"}
    BY <1>1, <1>11, <2>1 DEF Demand!Release, Flights
  <2>3. Demand!OTypeOK' /\ Demand!CollectsOnlyWhatIsMissing'
    BY <1>1, <2>1, <2>2, FlightSteps
  <2> QED
    BY <1>1, <2>1, <2>3, GateStays DEF DemandInv
<1>12. ASSUME NEW k \in Searches, Demand!Finish(k) PROVE DemandInv'
  <2>1. /\ flight' = [flight EXCEPT ![k] = None] /\ UNCHANGED <<holder, answers, gate, pulled, now, errors>>
        /\ visit' = [s \in Searchers |-> IF visit[s].at = "waits" /\ visit[s].key = k
                        THEN [visit[s] EXCEPT !.at = IF flight[k].outcome = "answer" THEN "answered" ELSE "failed"]
                        ELSE visit[s]]
    BY <1>12 DEF Demand!Finish
  <2>2. ASSUME NEW s \in Searchers
        PROVE  [visit[s] EXCEPT !.at = IF flight[k].outcome = "answer" THEN "answered" ELSE "failed"] \in Visits
    BY <1>1 DEF Visits
  <2>3. visit' \in [Searchers -> Visits]
    BY <1>1, <2>1, <2>2
  <2>4. flight' \in [Searches -> {None} \cup Flights] /\ \A l \in Searches : flight'[l] = flight[l] \/ flight'[l] = None
    BY <1>1, <2>1
  <2>5. Demand!OTypeOK' /\ Demand!CollectsOnlyWhatIsMissing'
    <3>1. Demand!OTypeOK'
      BY <1>1, <2>1, <2>3, <2>4, DemandTypesNext
    <3>2. Demand!CollectsOnlyWhatIsMissing'
      BY <1>1, <2>1, <2>4 DEF Demand!CollectsOnlyWhatIsMissing, Demand!Live
    <3> QED
      BY <3>1, <3>2
  <2> QED
    BY <1>1, <2>1, <2>5, GateStays DEF DemandInv
<1>13. ASSUME Demand!Expire PROVE DemandInv'
  <2>1. holder \in Searches /\ holder' = None /\ UNCHANGED <<visit, answers, gate, pulled, now>>
    BY <1>13 DEF Demand!Expire
  <2>2. PICK k \in Searches : k = holder
    BY <2>1
  <2>3. CASE Demand!Leased(k)
    <3> DEFINE there == [flight[k] EXCEPT !.lost = TRUE]
    <3>1. flight[k] # None /\ flight[k] \in Flights
      BY <1>1, <2>3 DEF Demand!Leased
    <3>2. there \in Flights /\ there.at = flight[k].at
      BY <3>1 DEF Flights
    <3>3. flight' = [flight EXCEPT ![k] = there] /\ Demand!Fault
      BY <1>13, <2>2, <2>3 DEF Demand!Expire
    <3> HIDE DEF there
    <3>4. /\ flight' \in [Searches -> {None} \cup Flights] /\ flight'[k].at = flight[k].at
          /\ \A l \in Searches \ {k} : flight'[l] = flight[l]
      BY <1>1, <3>2, <3>3
    <3>5. Demand!OTypeOK'
      BY <1>1, <2>1, <3>3, <3>4, Faults, DemandTypesNext
    <3>6. Demand!CollectsOnlyWhatIsMissing'
      BY <1>1, <2>1, <3>1, <3>4 DEF Demand!CollectsOnlyWhatIsMissing, Demand!Live
    <3> QED
      BY <1>1, <2>1, <3>5, <3>6, GateStays DEF DemandInv
  <2>4. CASE ~Demand!Leased(k)
    <3>1. UNCHANGED <<errors, flight>>
      BY <1>13, <2>2, <2>4 DEF Demand!Expire, Demand!NoFault
    <3> QED
      BY <1>1, <1>2, <2>1, <3>1, GateStays, DemandTypesNext DEF DemandInv
  <2> QED
    BY <2>3, <2>4
<1>14. ASSUME Demand!ScheduledRun PROVE DemandInv'
  <2>1. /\ holder' \in {"scheduler", None} /\ UNCHANGED <<visit, flight, answers, now, errors>>
        /\ Demand!Passes \/ UNCHANGED <<gate, pulled>>
    BY <1>14 DEF Demand!ScheduledRun
  <2> QED
    BY <1>1, <1>2, <2>1, GateStays, PassesKeep, DemandTypesNext DEF DemandInv
<1>15. ASSUME Demand!Tick PROVE DemandInv'
  <2>1. now' = now + 1 /\ now' \in 0..MaxTime /\ UNCHANGED <<visit, flight, holder, answers, gate, pulled, errors>>
    BY <1>1, <1>15 DEF Demand!Tick
  <2>2. Demand!CollectsOnlyWhatIsMissing'
    BY <1>1, <2>1 DEF Demand!CollectsOnlyWhatIsMissing, Demand!Live
  <2> QED
    BY <1>1, <2>1, <2>2, GateStays, DemandTypesNext DEF DemandInv
<1> QED
  BY <1>3, <1>4, <1>5, <1>6, <1>7, <1>8, <1>9, <1>10, <1>11, <1>12, <1>13, <1>14, <1>15 DEF Demand!ONext, DemandInv

-----------------------------------------------------------------------------
(* RequestPath *)

LEMMA PathConstants == Chosen \subseteq Path!RuleNames \ Path!Immutable /\ \A t \in Path!Routes : t.path # None
BY MCAssumption DEF Path!RequestPathAssumption

LEMMA Defaults ==
    /\ \A k \in {"dashboard_read", "scrapers_read", "observability_health"} : k \in Path!RuleNames /\ Path!DefaultLevel[k] = 1
    /\ \A k \in {"users_read", "users_block", "users_unblock", "users_reset_password", "scrapers_trigger",
                 "observability_metrics", "audit_read", "permissions_read"} : k \in Path!RuleNames /\ Path!DefaultLevel[k] = 2
    /\ \A k \in {"users_change_role", "users_delete", "permissions_manage"} : k \in Path!RuleNames /\ Path!DefaultLevel[k] = 3
BY DEF Path!RuleNames, Path!DefaultLevel

\* The router a route is in asks for the default level of its rule; only "/:id" is the route
\* of a path with a name of the list below the mount.
Sound(t) ==
    /\ t.router \in 0..3
    /\ t.mount = "/admin" /\ t.rule # None => t.rule \in Path!RuleNames /\ Path!DefaultLevel[t.rule] = t.router
    /\ t.below # None => t.below \in Path!PriorityPaths /\ t.path = "/:id"

LEMMA RoutesSound == ASSUME NEW t \in Path!Routes PROVE Sound(t)
<1> USE Defaults
<1>1. ASSUME t \in Path!SupportRoutes PROVE Sound(t)
  <2>1. \A u \in Path!Route("/admin", {"/dashboard"}, "dashboard_read", 1, FALSE) : Sound(u)
    BY DEF Path!Route, Sound
  <2>2. \A u \in Path!Route("/admin", {"/scrapers", "/scrapers/jobs/count"}, "scrapers_read", 1, FALSE) : Sound(u)
    BY DEF Path!Route, Sound
  <2>3. \A u \in Path!Route("/admin", {"/observability/health"}, "observability_health", 1, FALSE) : Sound(u)
    BY DEF Path!Route, Sound
  <2> QED
    BY <1>1, <2>1, <2>2, <2>3 DEF Path!SupportRoutes
<1>2. ASSUME t \in Path!AdminRoutes PROVE Sound(t)
  <2>1. \A u \in Path!Route("/admin", {"/users", "/users/:id"}, "users_read", 2, FALSE) : Sound(u)
    BY DEF Path!Route, Sound
  <2>2. \A u \in Path!Route("/admin", {"/users/:id/block"}, "users_block", 2, FALSE) : Sound(u)
    BY DEF Path!Route, Sound
  <2>3. \A u \in Path!Route("/admin", {"/users/:id/unblock"}, "users_unblock", 2, FALSE) : Sound(u)
    BY DEF Path!Route, Sound
  <2>4. \A u \in Path!Route("/admin", {"/users/:id/reset"}, "users_reset_password", 2, FALSE) : Sound(u)
    BY DEF Path!Route, Sound
  <2>5. \A u \in Path!Route("/admin", {"/scrapers/:id/run"}, "scrapers_trigger", 2, FALSE) : Sound(u)
    BY DEF Path!Route, Sound
  <2>6. \A u \in Path!Route("/admin", {"/observability", "/observability/dashboards"}, "observability_metrics", 2, FALSE) : Sound(u)
    BY DEF Path!Route, Sound
  <2>7. \A u \in Path!Route("/admin", {"/audit"}, "audit_read", 2, FALSE) : Sound(u)
    BY DEF Path!Route, Sound
  <2>8. \A u \in Path!Route("/admin", {"/permissions/rules"}, "permissions_read", 2, FALSE) : Sound(u)
    BY DEF Path!Route, Sound
  <2> QED
    BY <1>2, <2>1, <2>2, <2>3, <2>4, <2>5, <2>6, <2>7, <2>8 DEF Path!AdminRoutes
<1>3. ASSUME t \in Path!SuperAdminRoutes PROVE Sound(t)
  <2>1. \A u \in Path!Route("/admin", {"/users/:id/role"}, "users_change_role", 3, FALSE) : Sound(u)
    BY DEF Path!Route, Sound
  <2>2. \A u \in Path!Route("/admin", {"/users/:id"}, "users_delete", 3, FALSE) : Sound(u)
    BY DEF Path!Route, Sound
  <2>3. \A u \in Path!Route("/admin", {"/permissions/rules"}, "permissions_manage", 3, FALSE) : Sound(u)
    BY DEF Path!Route, Sound
  <2>4. \A u \in Path!Route("/admin", {"/jobs/cache"}, None, 3, FALSE) : Sound(u)
    BY DEF Path!Route, Sound
  <2> QED
    BY <1>3, <2>1, <2>2, <2>3, <2>4 DEF Path!SuperAdminRoutes
<1>4. ASSUME t \in Path!AuthRoutes PROVE Sound(t)
  <2>1. \A u \in Path!Route("/auth", {"/login", "/register", "/:provider/url"}, None, 0, TRUE) : Sound(u)
    BY DEF Path!Route, Sound
  <2>2. \A u \in Path!Route("/auth", {"/:provider/callback", "/me", "/logout", "/connections"}, None, 0, FALSE) : Sound(u)
    BY DEF Path!Route, Sound
  <2> QED
    BY <1>4, <2>1, <2>2 DEF Path!AuthRoutes
<1>5. ASSUME t \in Path!UserRoutes PROVE Sound(t)
  <2>1. \A u \in Path!Route("/users", {"/profile", "/preferences"}, None, 0, TRUE) : Sound(u)
    BY DEF Path!Route, Sound
  <2> QED
    BY <1>5, <2>1 DEF Path!UserRoutes
<1>6. ASSUME t \in Path!SavedJobsRoutes PROVE Sound(t)
  <2>1. \A u \in Path!Route("/saved-jobs", {"/", "/:id", "/:id/notes", "/:id/notes/:noteId"}, None, 0, TRUE) : Sound(u)
    BY DEF Path!Route, Sound
  <2>2. \A u \in Path!Route("/saved-jobs", {"/:id/events"}, None, 0, FALSE) : Sound(u)
    BY DEF Path!Route, Sound
  <2> QED
    BY <1>6, <2>1, <2>2 DEF Path!SavedJobsRoutes
<1>7. ASSUME t \in Path!NotificationsRoutes PROVE Sound(t)
  <2>1. \A u \in Path!Route("/notifications", {"/", "/read-all"}, None, 0, TRUE) : Sound(u)
    BY DEF Path!Route, Sound
  <2>2. \A u \in Path!Route("/notifications", {"/:id/read"}, None, 0, FALSE) : Sound(u)
    BY DEF Path!Route, Sound
  <2> QED
    BY <1>7, <2>1, <2>2 DEF Path!NotificationsRoutes
<1>8. ASSUME t \in Path!JobsRoutes PROVE Sound(t)
  <2>1. \A u \in Path!Route("/jobs", {"/search", "/filters/options"}, None, 0, FALSE) : Sound(u)
    BY DEF Path!Route, Sound
  <2> QED
    BY <1>8, <2>1 DEF Path!JobsRoutes
<1>9. ASSUME t \in Path!KeywordsRoutes PROVE Sound(t)
  <2>1. \A u \in Path!Route("/keywords", {"/"}, None, 0, FALSE) : Sound(u)
    BY DEF Path!Route, Sound
  <2> QED
    BY <1>9, <2>1 DEF Path!KeywordsRoutes
<1> QED
  BY <1>1, <1>2, <1>3, <1>4, <1>5, <1>6, <1>7, <1>8, <1>9 DEF Path!Routes

PathInv ==
    /\ chosen \in [Path!RuleNames -> Path!Level \cup {None}]
    /\ Path!LetInAsChosen /\ Path!CountedByTemplate

LEMMA PathStart == ASSUME Path!RInit PROVE PathInv
BY DEF Path!RInit, PathInv, Path!LetInAsChosen, Path!CountedByTemplate

\* A target is a route, or what no route is for.
LEMMA TargetOf ==
    ASSUME NEW q \in Path!Arrivals
    PROVE  /\ q.target.path # None => q.target.path \in {t.path : t \in Path!Routes} /\ Sound(q.target)
           /\ q.target.path = None => q.target.rule = None /\ q.target.router = 4
                                      /\ q.target.mount \in {"/admin", "/auth", "/saved-jobs"}
           /\ q.target.below # None => q.target.below \in Path!PriorityPaths
           /\ q.level \in Path!Level \cup {None}
<1>1. q.target \in Path!Targets /\ q.level \in Path!Level \cup {None}
  BY DEF Path!Arrivals
<1>2. CASE q.target \in Path!Routes
  <2>1. Sound(q.target)
    BY <1>2, RoutesSound
  <2> QED
    BY <1>1, <1>2, <2>1, PathConstants DEF Sound
<1>3. ASSUME NEW m \in {"/admin", "/auth", "/saved-jobs"}, NEW b \in {None} \cup Path!PriorityPaths, q.target = Path!Unknown(m, b)
      PROVE  q.target.path = None /\ q.target.rule = None /\ q.target.router = 4 /\ q.target.mount = m /\ q.target.below = b
  BY <1>3 DEF Path!Unknown
<1>4. ASSUME NEW t \in {u \in Path!SavedJobsRoutes : u.path = "/:id"}, q.target = [t EXCEPT !.below = "/health"]
      PROVE  /\ q.target.path \in {u.path : u \in Path!Routes} /\ Sound(q.target)
             /\ q.target.path # None /\ q.target.below \in Path!PriorityPaths
  <2>1. t \in Path!Routes
    BY DEF Path!Routes
  <2>2. \A paths, checked : \A u \in Path!Route("/saved-jobs", paths, None, 0, checked) :
            \E y : u = [mount |-> "/saved-jobs", path |-> y, rule |-> None, router |-> 0, checked |-> checked, below |-> None]
    BY DEF Path!Route
  <2>3. PICK c, y : t = [mount |-> "/saved-jobs", path |-> y, rule |-> None, router |-> 0, checked |-> c, below |-> None]
    BY <2>2 DEF Path!SavedJobsRoutes
  <2>4. q.target = [mount |-> "/saved-jobs", path |-> y, rule |-> None, router |-> 0, checked |-> c, below |-> "/health"]
    BY <1>4, <2>3
  <2>5. /\ q.target.mount = "/saved-jobs" /\ q.target.path = y /\ q.target.rule = None /\ q.target.router = 0
        /\ q.target.below = "/health" /\ t.path = y /\ y = "/:id"
    BY <2>3, <2>4
  <2>6. "/health" \in Path!PriorityPaths
    BY DEF Path!PriorityPaths
  <2> QED
    BY <2>1, <2>5, <2>6, PathConstants DEF Sound
<1> QED
  BY <1>1, <1>2, <1>3, <1>4 DEF Path!Targets

LEMMA PriorityHasRoute == ASSUME NEW q \in Path!Arrivals, Path!Priority(q.target) PROVE q.target.path \in {t.path : t \in Path!Routes}
<1>2. [mount |-> "/jobs", path |-> "/search", rule |-> None, router |-> 0, checked |-> FALSE, below |-> None] \in Path!Routes
  BY DEF Path!Routes, Path!JobsRoutes, Path!Route
<1>3. [mount |-> "/auth", path |-> "/login", rule |-> None, router |-> 0, checked |-> TRUE, below |-> None] \in Path!Routes
  BY DEF Path!Routes, Path!AuthRoutes, Path!Route
<1>4. [mount |-> "/admin", path |-> "/scrapers", rule |-> "scrapers_read", router |-> 1, checked |-> FALSE, below |-> None] \in Path!Routes
  BY DEF Path!Routes, Path!SupportRoutes, Path!Route
<1>5. [mount |-> "/admin", path |-> "/observability", rule |-> "observability_metrics", router |-> 2, checked |-> FALSE, below |-> None] \in Path!Routes
  BY DEF Path!Routes, Path!AdminRoutes, Path!Route
<1>6. "/search" # None /\ "/login" # None /\ "/scrapers" # None /\ "/observability" # None
  BY <1>2, <1>3, <1>4, <1>5, PathConstants
<1>7. q.target.path \in {"/search", "/login", "/scrapers", "/observability"}
  BY DEF Path!Priority
<1> QED
  BY <1>6, <1>7, TargetOf

\* What an answer to q can be counted as, and which of it are the names of its own route.
OwnNames(q) == {Path!Mountless, q.target.mount} \X {q.target.path}
Labels(q) == {Path!Unmatched} \cup ({Path!Mountless, q.target.mount} \X {t.path : t \in Path!Routes}) \cup ({Path!Mountless} \X Path!PriorityPaths)

LEMMA LabelsKnown ==
    ASSUME NEW q \in Path!Arrivals
    PROVE  /\ Path!NotRouted(q) \in Labels(q) /\ Path!TurnedAway(q) \in Labels(q)
           /\ q.target.path # None =>
                 /\ Path!NotRouted(q) \in OwnNames(q) <=> Path!Priority(q.target)
                 /\ Path!TurnedAway(q) \notin OwnNames(q)
                 /\ {<<q.target.mount, q.target.path>>, <<Path!Mountless, q.target.path>>} \subseteq Labels(q) \cap OwnNames(q)
<1>1. q.target.path # None => q.target.path \in {t.path : t \in Path!Routes}
  BY TargetOf
<1>2. Path!Priority(q.target) => q.target.path \in {t.path : t \in Path!Routes}
  BY PriorityHasRoute
<1>3. Path!Unmatched \notin OwnNames(q)
  BY DEF Path!Unmatched, OwnNames
<1>4. <<q.target.mount, q.target.path>> \in OwnNames(q) /\ <<Path!Mountless, q.target.path>> \in OwnNames(q)
  BY DEF OwnNames
<1>5. q.target.path \in {t.path : t \in Path!Routes} => OwnNames(q) \subseteq Labels(q)
  BY DEF OwnNames, Labels
<1>6. Path!Unmatched \in Labels(q) /\ (q.target.below \in Path!PriorityPaths => <<Path!Mountless, q.target.below>> \in Labels(q))
  BY DEF Labels
<1>7. q.target.path # None /\ q.target.below # None => <<Path!Mountless, q.target.below>> \notin OwnNames(q)
  <2>1. q.target.path # None /\ q.target.below # None => q.target.below # q.target.path
    BY TargetOf DEF Path!PriorityPaths, Sound
  <2> QED
    BY <2>1 DEF OwnNames
<1>8. Path!TurnedAway(q) \in Labels(q) /\ (q.target.path # None => Path!TurnedAway(q) \notin OwnNames(q))
  BY <1>3, <1>6, <1>7, TargetOf DEF Path!TurnedAway
<1>9. /\ Path!NotRouted(q) \in Labels(q)
      /\ q.target.path # None => (Path!NotRouted(q) \in OwnNames(q) <=> Path!Priority(q.target))
  <2>1. CASE Path!Priority(q.target)
    BY <1>2, <1>4, <1>5, <2>1 DEF Path!NotRouted
  <2>2. CASE ~Path!Priority(q.target)
    BY <1>3, <1>6, <2>2 DEF Path!NotRouted
  <2> QED
    BY <2>1, <2>2
<1>10. q.target.path # None => {<<q.target.mount, q.target.path>>, <<Path!Mountless, q.target.path>>} \subseteq Labels(q) \cap OwnNames(q)
  BY <1>1, <1>4, <1>5
<1> QED
  BY <1>8, <1>9, <1>10

LEMMA LeastIsLevel ==
    ASSUME PathInv, NEW k \in Path!RuleNames
    PROVE  Path!LeastOf(k) \in Path!Level /\ (chosen' = chosen => Path!LeastOf(k)' = Path!LeastOf(k))
<1>1. Path!DefaultLevel[k] \in Path!Level
  BY DEF Path!RuleNames, Path!DefaultLevel, Path!Level
<1> QED
  BY <1>1 DEF PathInv, Path!LeastOf

\* What is left to show of an answer: that it is counted under a name of the list, and
\* under one of its own just when it should be,
Named(q, status) == Path!Routed(q) \/ (Path!Priority(q.target) /\ ~q.origin) \/ (q.target.mount = "/auth" /\ status = 401)
Fitting(q, status, label) ==
    label = None \/ (/\ label \in Labels(q)
                     /\ q.target.path # None => (label \in OwnNames(q) <=> Named(q, status)))

LEMMA AnswerCounted ==
    ASSUME NEW q \in Path!Arrivals, answer'.q = q, Fitting(q, answer'.status, answer'.label)
    PROVE  Path!CountedByTemplate'
BY DEF Path!CountedByTemplate, Fitting, Named, Labels, OwnNames, Path!Routed, Path!Known, Path!Received, Path!NeedsSession,
   Path!LevelOfRouter, Path!Priority, Path!Unmatched

\* and that the session is let in as it should be.
LEMMA AnswerChosen ==
    ASSUME PathInv, NEW q \in Path!Arrivals, chosen' = chosen, answer'.q = q,
           answer'.ran /\ q.target.rule # None => q.level >= Path!LeastOf(q.target.rule),
           \/ answer'.status # 403 \/ ~q.origin \/ q.target.rule = None \/ ~(q.level >= Path!LeastOf(q.target.rule))
           \/ Path!LeastOf(q.target.rule) < Path!DefaultLevel[q.target.rule],
           answer'.status # 404 \/ answer'.ran \/ q.target.mount # "/admin" \/ q.level = 3
    PROVE  Path!LetInAsChosen'
<1>1. q.target.mount = "/admin" /\ q.target.rule # None => q.target.rule \in Path!RuleNames
  BY TargetOf DEF Sound
<1>2. q.target.mount = "/admin" /\ q.target.rule # None => Path!LeastOf(q.target.rule)' = Path!LeastOf(q.target.rule)
  BY <1>1, LeastIsLevel
<1> QED
  BY <1>2 DEF Path!LetInAsChosen

LEMMA PathStep == ASSUME PathInv, Path!Serve PROVE PathInv'
<1>1. PICK q \in Path!Arrivals :
         \/ Path!Unreadable(q) \/ Path!OriginRefused(q) \/ Path!Unauthenticated(q) \/ Path!RoleRefused(q)
         \/ Path!NotFound(q) \/ Path!PermissionRefused(q) \/ Path!InputRefused(q) \/ Path!Handled(q)
  BY DEF Path!Serve
<1>2. chosen' = chosen
  BY DEF Path!Serve
<1>3. /\ Path!NotRouted(q) \in Labels(q) /\ Path!TurnedAway(q) \in Labels(q)
      /\ q.target.path # None =>
            /\ Path!NotRouted(q) \in OwnNames(q) <=> Path!Priority(q.target)
            /\ Path!TurnedAway(q) \notin OwnNames(q)
            /\ {<<q.target.mount, q.target.path>>, <<Path!Mountless, q.target.path>>} \subseteq Labels(q) \cap OwnNames(q)
  BY LabelsKnown
<1>4. /\ q.target.path # None => Sound(q.target)
      /\ q.target.path = None => q.target.rule = None /\ q.target.router = 4
      /\ q.level \in Path!Level \cup {None}
  BY TargetOf
<1> SUFFICES Path!LetInAsChosen' /\ Path!CountedByTemplate'
  BY <1>2 DEF PathInv
<1> USE <1>1, <1>2
<1>5. CASE Path!Unreadable(q)
  <2>1. answer'.q = q /\ answer'.status = 500 /\ answer'.label = None /\ ~answer'.ran /\ q.body = "unreadable"
    BY <1>5 DEF Path!Unreadable, Path!Answer, Path!ErrorStatus
  <2>5. Fitting(q, answer'.status, answer'.label)
    BY <2>1 DEF Fitting
  <2>7. answer'.ran /\ q.target.rule # None => q.level >= Path!LeastOf(q.target.rule)
    BY <2>1
  <2>8. \/ answer'.status # 403 \/ ~q.origin \/ q.target.rule = None \/ ~(q.level >= Path!LeastOf(q.target.rule))
        \/ Path!LeastOf(q.target.rule) < Path!DefaultLevel[q.target.rule]
    BY <2>1
  <2>9. answer'.status # 404 \/ answer'.ran \/ q.target.mount # "/admin" \/ q.level = 3
    BY <2>1
  <2>10. Path!CountedByTemplate'
    BY <2>1, <2>5, AnswerCounted
  <2> QED
    BY <2>1, <2>7, <2>8, <2>9, <2>10, AnswerChosen
<1>6. CASE Path!OriginRefused(q)
  <2>1. answer'.q = q /\ answer'.status = 403 /\ answer'.label = Path!NotRouted(q) /\ ~answer'.ran /\ ~q.origin
    BY <1>6 DEF Path!OriginRefused, Path!Answer, Path!ErrorStatus
  <2>5. Fitting(q, answer'.status, answer'.label)
    <3>1. Named(q, answer'.status) <=> Path!Priority(q.target)
      BY <2>1 DEF Named, Path!Routed, Path!Known, Path!Received
    <3> QED
      BY <1>3, <2>1, <3>1 DEF Fitting
  <2>7. answer'.ran /\ q.target.rule # None => q.level >= Path!LeastOf(q.target.rule)
    BY <2>1
  <2>8. \/ answer'.status # 403 \/ ~q.origin \/ q.target.rule = None \/ ~(q.level >= Path!LeastOf(q.target.rule))
        \/ Path!LeastOf(q.target.rule) < Path!DefaultLevel[q.target.rule]
    BY <2>1
  <2>9. answer'.status # 404 \/ answer'.ran \/ q.target.mount # "/admin" \/ q.level = 3
    BY <2>1
  <2>10. Path!CountedByTemplate'
    BY <2>1, <2>5, AnswerCounted
  <2> QED
    BY <2>1, <2>7, <2>8, <2>9, <2>10, AnswerChosen
<1>7. CASE Path!Unauthenticated(q)
  <2>1. /\ answer'.q = q /\ answer'.status = 401 /\ ~answer'.ran /\ q.origin /\ q.level = None
        /\ answer'.label = IF q.target.mount = "/auth" THEN <<q.target.mount, q.target.path>> ELSE Path!TurnedAway(q)
        /\ q.target.mount = "/auth" => q.target.path = "/connections"
    BY <1>7 DEF Path!Unauthenticated, Path!Answer, Path!NeedsSession, Path!Received, Path!CountedAs
  <2>2. "/connections" # None
    <3>1. [mount |-> "/auth", path |-> "/connections", rule |-> None, router |-> 0, checked |-> FALSE, below |-> None] \in Path!Routes
      BY DEF Path!Routes, Path!AuthRoutes, Path!Route
    <3> QED
      BY <3>1, PathConstants
  <2>5. Fitting(q, answer'.status, answer'.label)
    <3>1. CASE q.target.mount = "/auth"
      <4>1. q.target.path # None /\ answer'.label = <<q.target.mount, q.target.path>>
        BY <2>1, <2>2, <3>1
      <4>2. Named(q, answer'.status)
        BY <2>1, <3>1 DEF Named
      <4> QED
        BY <1>3, <4>1, <4>2 DEF Fitting
    <3>2. CASE q.target.mount # "/auth"
      <4>1. ~Named(q, answer'.status)
        BY <2>1, <3>2 DEF Named, Path!Routed, Path!Known, Path!NeedsSession
      <4> QED
        BY <1>3, <2>1, <3>2, <4>1 DEF Fitting
    <3> QED
      BY <3>1, <3>2
  <2>7. answer'.ran /\ q.target.rule # None => q.level >= Path!LeastOf(q.target.rule)
    BY <2>1, <2>2
  <2>8. \/ answer'.status # 403 \/ ~q.origin \/ q.target.rule = None \/ ~(q.level >= Path!LeastOf(q.target.rule))
        \/ Path!LeastOf(q.target.rule) < Path!DefaultLevel[q.target.rule]
    BY <2>1, <2>2
  <2>9. answer'.status # 404 \/ answer'.ran \/ q.target.mount # "/admin" \/ q.level = 3
    BY <2>1, <2>2
  <2>10. Path!CountedByTemplate'
    BY <2>1, <2>5, AnswerCounted
  <2> QED
    BY <2>1, <2>7, <2>8, <2>9, <2>10, AnswerChosen
<1>8. CASE Path!RoleRefused(q)
  <2>1. /\ answer'.q = q /\ answer'.status = 403 /\ ~answer'.ran /\ answer'.label = Path!TurnedAway(q) /\ q.origin
        /\ q.target.mount = "/admin" /\ q.level < Path!LevelOfRouter(q.target) /\ q.level # None
    BY <1>8 DEF Path!RoleRefused, Path!Answer, Path!Known, Path!NeedsSession, Path!Received
  <2>2. q.target.rule # None => /\ q.target.rule \in Path!RuleNames
                                /\ Path!DefaultLevel[q.target.rule] = Path!LevelOfRouter(q.target)
    BY <1>4, <2>1 DEF Sound, Path!LevelOfRouter, Path!RuleNames, Path!DefaultLevel
  <2>3. Path!LevelOfRouter(q.target) \in 0..4 /\ q.level \in 0..3
    BY <1>4, <2>1 DEF Path!LevelOfRouter, Path!Level, Sound
  <2>4. q.target.rule # None /\ q.level >= Path!LeastOf(q.target.rule) =>
            Path!LeastOf(q.target.rule) < Path!DefaultLevel[q.target.rule]
    BY <2>1, <2>2, <2>3, LeastIsLevel DEF Path!Level
  <2>5. Fitting(q, answer'.status, answer'.label)
    <3>1. ~Named(q, answer'.status)
      BY <2>1, <2>3 DEF Named, Path!Routed
    <3> QED
      BY <1>3, <2>1, <3>1 DEF Fitting
  <2>7. answer'.ran /\ q.target.rule # None => q.level >= Path!LeastOf(q.target.rule)
    BY <2>1, <2>4
  <2>8. \/ answer'.status # 403 \/ ~q.origin \/ q.target.rule = None \/ ~(q.level >= Path!LeastOf(q.target.rule))
        \/ Path!LeastOf(q.target.rule) < Path!DefaultLevel[q.target.rule]
    BY <2>1, <2>4
  <2>9. answer'.status # 404 \/ answer'.ran \/ q.target.mount # "/admin" \/ q.level = 3
    BY <2>1, <2>4
  <2>10. Path!CountedByTemplate'
    BY <2>1, <2>5, AnswerCounted
  <2> QED
    BY <2>1, <2>7, <2>8, <2>9, <2>10, AnswerChosen
<1>9. CASE Path!NotFound(q)
  <2>1. /\ answer'.q = q /\ answer'.status = 404 /\ ~answer'.ran /\ answer'.label = Path!NotRouted(q)
        /\ q.target.path = None
        /\ q.target.mount = "/admin" => q.level >= Path!LevelOfRouter(q.target) /\ q.level # None
    BY <1>9 DEF Path!NotFound, Path!Answer, Path!Routed, Path!Known, Path!NeedsSession
  <2>2. q.target.mount = "/admin" => q.level = 3
    BY <1>4, <2>1 DEF Path!LevelOfRouter, Path!Level
  <2>5. Fitting(q, answer'.status, answer'.label)
    BY <1>3, <2>1 DEF Fitting
  <2>7. answer'.ran /\ q.target.rule # None => q.level >= Path!LeastOf(q.target.rule)
    BY <2>1, <2>2
  <2>8. \/ answer'.status # 403 \/ ~q.origin \/ q.target.rule = None \/ ~(q.level >= Path!LeastOf(q.target.rule))
        \/ Path!LeastOf(q.target.rule) < Path!DefaultLevel[q.target.rule]
    BY <2>1, <2>2
  <2>9. answer'.status # 404 \/ answer'.ran \/ q.target.mount # "/admin" \/ q.level = 3
    BY <2>1, <2>2
  <2>10. Path!CountedByTemplate'
    BY <2>1, <2>5, AnswerCounted
  <2> QED
    BY <2>1, <2>7, <2>8, <2>9, <2>10, AnswerChosen
<1>10. CASE Path!PermissionRefused(q)
  <2>1. /\ answer'.q = q /\ answer'.status = 403 /\ ~answer'.ran /\ q.target.path # None
        /\ answer'.label = <<q.target.mount, q.target.path>> /\ Path!Routed(q)
        /\ q.target.rule # None /\ ~(q.level >= Path!LeastOf(q.target.rule))
    BY <1>10 DEF Path!PermissionRefused, Path!Answer, Path!Permits, Path!CountedAs
  <2>5. Fitting(q, answer'.status, answer'.label)
    <3>1. Named(q, answer'.status)
      BY <2>1 DEF Named
    <3>2. answer'.label \in Labels(q) /\ answer'.label \in OwnNames(q)
      BY <1>3, <2>1
    <3> QED
      BY <3>1, <3>2 DEF Fitting
  <2>7. answer'.ran /\ q.target.rule # None => q.level >= Path!LeastOf(q.target.rule)
    BY <2>1
  <2>8. \/ answer'.status # 403 \/ ~q.origin \/ q.target.rule = None \/ ~(q.level >= Path!LeastOf(q.target.rule))
        \/ Path!LeastOf(q.target.rule) < Path!DefaultLevel[q.target.rule]
    BY <2>1
  <2>9. answer'.status # 404 \/ answer'.ran \/ q.target.mount # "/admin" \/ q.level = 3
    BY <2>1
  <2>10. Path!CountedByTemplate'
    BY <2>1, <2>5, AnswerCounted
  <2> QED
    BY <2>1, <2>7, <2>8, <2>9, <2>10, AnswerChosen
<1>11. CASE Path!InputRefused(q)
  <2>1. /\ answer'.q = q /\ answer'.status = 400 /\ ~answer'.ran /\ q.target.path # None /\ q.body = "invalid"
        /\ answer'.label = <<Path!Mountless, q.target.path>> /\ Path!Routed(q)
    BY <1>11 DEF Path!InputRefused, Path!Answer, Path!Reached, Path!CountedAs, Path!ErrorStatus
  <2>2. answer'.status = 400
    BY <2>1
  <2>5. Fitting(q, answer'.status, answer'.label)
    <3>1. Named(q, answer'.status)
      BY <2>1 DEF Named
    <3>2. answer'.label \in Labels(q) /\ answer'.label \in OwnNames(q)
      BY <1>3, <2>1
    <3> QED
      BY <3>1, <3>2 DEF Fitting
  <2>7. answer'.ran /\ q.target.rule # None => q.level >= Path!LeastOf(q.target.rule)
    BY <2>1
  <2>8. \/ answer'.status # 403 \/ ~q.origin \/ q.target.rule = None \/ ~(q.level >= Path!LeastOf(q.target.rule))
        \/ Path!LeastOf(q.target.rule) < Path!DefaultLevel[q.target.rule]
    BY <2>2
  <2>9. answer'.status # 404 \/ answer'.ran \/ q.target.mount # "/admin" \/ q.level = 3
    BY <2>2
  <2>10. Path!CountedByTemplate'
    BY <2>1, <2>5, AnswerCounted
  <2> QED
    BY <2>1, <2>7, <2>8, <2>9, <2>10, AnswerChosen
<1>12. CASE Path!Handled(q)
  <2>1. /\ answer'.q = q /\ answer'.ran /\ q.target.path # None
        /\ answer'.label \in {<<q.target.mount, q.target.path>>, <<Path!Mountless, q.target.path>>} /\ Path!Routed(q)
        /\ q.target.rule # None => q.level >= Path!LeastOf(q.target.rule)
    BY <1>12 DEF Path!Handled, Path!Answer, Path!Reached, Path!Permits, Path!CountedAs
  <2>2. answer'.status # 403
    <3>1. q.end \in {"answered", "refused", "thrown"}
      BY DEF Path!Arrivals
    <3> QED
      BY <1>12, <3>1 DEF Path!Handled, Path!Answer, Path!ErrorStatus
  <2>5. Fitting(q, answer'.status, answer'.label)
    <3>1. Named(q, answer'.status)
      BY <2>1 DEF Named
    <3>2. answer'.label \in Labels(q) /\ answer'.label \in OwnNames(q)
      BY <1>3, <2>1
    <3> QED
      BY <3>1, <3>2 DEF Fitting
  <2>7. answer'.ran /\ q.target.rule # None => q.level >= Path!LeastOf(q.target.rule)
    BY <2>1, <2>2
  <2>8. \/ answer'.status # 403 \/ ~q.origin \/ q.target.rule = None \/ ~(q.level >= Path!LeastOf(q.target.rule))
        \/ Path!LeastOf(q.target.rule) < Path!DefaultLevel[q.target.rule]
    BY <2>2
  <2>9. answer'.status # 404 \/ answer'.ran \/ q.target.mount # "/admin" \/ q.level = 3
    <3>1. answer'.ran
      BY <2>1
    <3> QED
      BY <3>1
  <2>10. Path!CountedByTemplate'
    BY <2>1, <2>5, AnswerCounted
  <2> QED
    BY <2>1, <2>7, <2>8, <2>9, <2>10, AnswerChosen
<1> QED
  BY <1>5, <1>6, <1>7, <1>8, <1>9, <1>10, <1>11, <1>12

-----------------------------------------------------------------------------
(* AdminDesk *)

DeskPlaces == {"free", "check", "upsert", "refused", "findLevel", "level", "findBlocked", "blocked", "findDelete", "delete"}
Orders == [at : DeskPlaces, user : Staff \cup {None}, level : Levels \cup {None}, blocked : BOOLEAN \cup {None},
         changes : Desk!Changes, left : SUBSET Rules]

\* What a page shows otherwise than it was read, and what it sends, was chosen on it since.
SheetIsChosen(s) ==
    /\ order[s].at = "free" => order[s] = Desk!Quiet
    /\ \A k \in Rules : sheet[s].rules[k] # sheet[s].initial[k] => k \in touched[s]
    /\ \A k \in Rules : order[s].changes[k] # None => k \in touched[s]
    /\ order[s].left \subseteq touched[s]

\* What is asked for a user is not what the page shows of it.
AskIsAChange(s) ==
    /\ order[s].at \in {"findLevel", "level"} => order[s].level # None
    /\ order[s].at \in {"findBlocked", "blocked"} => order[s].blocked # None
    /\ order[s].at \in {"findLevel", "level", "findBlocked", "blocked"} =>
          /\ order[s].user \in Staff
          /\ order[s].level # None => order[s].level # row[s][order[s].user].level
          /\ order[s].blocked # None => order[s].blocked # row[s][order[s].user].blocked
    /\ order[s].at \in {"findDelete", "delete"} => order[s].user \in Staff

DeskInv ==
    /\ override \in [Rules -> Levels \cup {None}]
    /\ account \in [Staff -> Desk!Account \cup {None}]
    /\ badge \in [Staff -> Levels \cup {None}]
    /\ sheet \in [Staff -> [rules : Desk!Sheet, initial : Desk!Sheet]]
    /\ row \in [Staff -> [Staff -> Desk!Account \cup {None}]]
    /\ touched \in [Staff -> SUBSET Rules]
    /\ order \in [Staff -> Orders]
    /\ \A s \in Staff : SheetIsChosen(s) /\ AskIsAChange(s)

LEMMA DeskConstants == Desk!AdminDeskAssumption
BY MCAssumption

\* The rules and the page: what they have while nothing is under way.
LEMMA QuietAsk ==
    /\ Desk!Quiet \in Orders /\ Desk!Quiet.at = "free" /\ Desk!Quiet.left = {}
    /\ \A k \in Rules : Desk!Quiet.changes[k] = None
BY DEF Desk!Quiet, Desk!Nothing, Orders, DeskPlaces, Desk!Changes

LEMMA DeskStart == ASSUME Desk!Init PROVE DeskInv
<1> USE DEF Desk!Init
<1>1. DefaultLevel \in [Rules -> Levels]
  BY DeskConstants DEF Desk!AdminDeskAssumption
<1>2. /\ override \in [Rules -> Levels \cup {None}] /\ account \in [Staff -> Desk!Account \cup {None}]
      /\ badge \in [Staff -> Levels \cup {None}] /\ touched \in [Staff -> SUBSET Rules]
      /\ row \in [Staff -> [Staff -> Desk!Account \cup {None}]]
  BY DEF Desk!Nothing, Desk!Account
<1>3. sheet \in [Staff -> [rules : Desk!Sheet, initial : Desk!Sheet]] /\ order \in [Staff -> Orders]
  BY <1>1, QuietAsk DEF Desk!Sheet
<1>4. ASSUME NEW s \in Staff PROVE SheetIsChosen(s) /\ AskIsAChange(s)
  BY QuietAsk DEF SheetIsChosen, AskIsAChange
<1> QED
  BY <1>2, <1>3, <1>4 DEF DeskInv

\* What one administrator does leaves alone what is of the others.
LEMMA DeskFrame ==
    ASSUME DeskInv, NEW s \in Staff,
           \A t \in Staff \ {s} : /\ sheet'[t] = sheet[t] /\ row'[t] = row[t]
                                  /\ touched'[t] = touched[t] /\ order'[t] = order[t],
           SheetIsChosen(s)', AskIsAChange(s)'
    PROVE  \A t \in Staff : SheetIsChosen(t)' /\ AskIsAChange(t)'
BY DEF DeskInv, SheetIsChosen, AskIsAChange

\* The rules as they apply are a page of rules.
LEMMA RulesAreASheet == ASSUME DeskInv PROVE Desk!Effective \in Desk!Sheet /\ DefaultLevel \in Desk!Sheet
<1>1. DefaultLevel \in [Rules -> Levels]
  BY DeskConstants DEF Desk!AdminDeskAssumption
<1> QED
  BY <1>1 DEF DeskInv, Desk!Effective, Desk!Sheet

\* The statement that changes one field of an account.
LEMMA LevelIsSet ==
    ASSUME DeskInv, NEW u \in Staff, account[u] # None, NEW l \in Levels, account' = [account EXCEPT ![u]["level"] = l]
    PROVE  /\ account' \in [Staff -> Desk!Account \cup {None}] /\ \A v \in Staff \ {u} : account'[v] = account[v]
           /\ account'[u]["blocked"] = account[u]["blocked"] /\ account'[u]["level"] = l
BY DEF DeskInv, Desk!Account

LEMMA BlockIsSet ==
    ASSUME DeskInv, NEW u \in Staff, account[u] # None, NEW b \in BOOLEAN, account' = [account EXCEPT ![u]["blocked"] = b]
    PROVE  /\ account' \in [Staff -> Desk!Account \cup {None}] /\ \A v \in Staff \ {u} : account'[v] = account[v]
           /\ account'[u]["level"] = account[u]["level"] /\ account'[u]["blocked"] = b
<1> DEFINE next == [account[u] EXCEPT !["blocked"] = b]
<1>1. next \in Desk!Account /\ next["level"] = account[u]["level"] /\ next["blocked"] = b
  <2>1. account[u] \in Desk!Account
    BY DEF DeskInv
  <2> QED
    BY <2>1 DEF Desk!Account
<1>2. account' = [account EXCEPT ![u] = next]
  OBVIOUS
<1> HIDE DEF next
<1> QED
  BY <1>1, <1>2 DEF DeskInv

\* The page shows the row it was given.
LEMMA RowIsShown ==
    ASSUME DeskInv, NEW s \in Staff, NEW u \in Staff, NEW r \in Desk!Account \cup {None}, row' = [row EXCEPT ![s][u] = r]
    PROVE  row' \in [Staff -> [Staff -> Desk!Account \cup {None}]] /\ \A t \in Staff \ {s} : row'[t] = row[t]
<1>1. [row[s] EXCEPT ![u] = r] \in [Staff -> Desk!Account \cup {None}] /\ row' = [row EXCEPT ![s] = [row[s] EXCEPT ![u] = r]]
  BY DEF DeskInv
<1> QED
  BY <1>1 DEF DeskInv

\* What a step may change of the rules and of the accounts.
RuleWasChosen == \A k \in Rules : override'[k] # override[k] => \E s \in Staff : k \in order[s].left /\ k \in touched[s]
UserWasShownOtherwise ==
    \A u \in Staff : account'[u] # account[u] /\ account'[u] # None =>
        \E s \in Staff : /\ order[s].user = u
                         /\ \A f \in {"level", "blocked"} : account'[u][f] # account[u][f] => row[s][u][f] # account'[u][f]

LEMMA DeskStep == ASSUME DeskInv, Desk!Next PROVE DeskInv' /\ RuleWasChosen /\ UserWasShownOtherwise
<1>1. PICK s \in Staff :
        \/ Desk!OpenRules(s) \/ Desk!SaveRules(s) \/ Desk!CheckRules(s) \/ Desk!RulesSaved(s) \/ Desk!RulesRefused(s)
        \/ \E k \in Rules : Desk!UpsertRule(s, k) \/ \E l \in Levels : Desk!UpdateRule(s, k, l)
        \/ Desk!OpenUsers(s) \/ Desk!FindUser(s) \/ Desk!ChangeRole(s) \/ Desk!SetBlocked(s) \/ Desk!DeleteUser(s)
        \/ Desk!SignInAgain(s)
        \/ \E u \in Staff : Desk!AskDelete(s, u) \/ \E l \in Levels, b \in BOOLEAN : Desk!SaveUser(s, u, l, b)
  BY DEF Desk!Next
<1>2. /\ override \in [Rules -> Levels \cup {None}] /\ account \in [Staff -> Desk!Account \cup {None}]
      /\ badge \in [Staff -> Levels \cup {None}] /\ sheet \in [Staff -> [rules : Desk!Sheet, initial : Desk!Sheet]]
      /\ row \in [Staff -> [Staff -> Desk!Account \cup {None}]]
      /\ touched \in [Staff -> SUBSET Rules] /\ order \in [Staff -> Orders]
  BY DEF DeskInv
<1>3. SheetIsChosen(s) /\ AskIsAChange(s)
  BY DEF DeskInv
<1>4. ASSUME Desk!OpenRules(s) PROVE DeskInv' /\ RuleWasChosen /\ UserWasShownOtherwise
  <2> USE <1>4 DEF Desk!OpenRules
  <2>1. PICK read \in Desk!Sheet : sheet' = [sheet EXCEPT ![s] = [rules |-> read, initial |-> read]]
    BY RulesAreASheet
  <2>2. sheet' \in [Staff -> [rules : Desk!Sheet, initial : Desk!Sheet]] /\ touched' \in [Staff -> SUBSET Rules]
    BY <1>2, <2>1
  <2>3. order' = order /\ order[s] = Desk!Quiet /\ sheet'[s].rules = sheet'[s].initial
    BY <1>2, <1>3, <2>1 DEF SheetIsChosen, Desk!Free
  <2>4. SheetIsChosen(s)' /\ AskIsAChange(s)'
    BY <2>3, QuietAsk DEF SheetIsChosen, AskIsAChange
  <2>5. \A t \in Staff : SheetIsChosen(t)' /\ AskIsAChange(t)'
    BY <1>2, <2>1, <2>4, DeskFrame
  <2> QED
    BY <1>2, <2>2, <2>5 DEF DeskInv, RuleWasChosen, UserWasShownOtherwise
<1>5. ASSUME Desk!SaveRules(s) PROVE DeskInv' /\ RuleWasChosen /\ UserWasShownOtherwise
  <2> DEFINE sent == [Desk!Quiet EXCEPT !.at = "check", !.changes = Desk!ChangedRules(s)]
  <2>1. order' = [order EXCEPT ![s] = sent] /\ UNCHANGED <<override, account, badge, sheet, row, touched>>
    BY <1>5 DEF Desk!SaveRules, Desk!Begin
  <2>2. Desk!ChangedRules(s) \in Desk!Changes
    BY <1>2 DEF Desk!ChangedRules, Desk!Changes, Desk!Sheet
  <2>3. sent \in Orders /\ sent.at = "check" /\ sent.changes = Desk!ChangedRules(s) /\ sent.left = {}
    BY <2>2, QuietAsk DEF Orders, DeskPlaces
  <2> HIDE DEF sent
  <2>4. order' \in [Staff -> Orders] /\ order'[s] = sent
    BY <1>2, <2>1, <2>3
  <2>5. \A k \in Rules : sent.changes[k] # None => k \in touched[s]
    BY <1>3, <2>3 DEF SheetIsChosen, Desk!ChangedRules
  <2>6. SheetIsChosen(s)' /\ AskIsAChange(s)'
    BY <1>3, <2>1, <2>3, <2>4, <2>5 DEF SheetIsChosen, AskIsAChange
  <2>7. \A t \in Staff : SheetIsChosen(t)' /\ AskIsAChange(t)'
    BY <1>2, <2>1, <2>6, DeskFrame
  <2> QED
    BY <1>2, <2>1, <2>4, <2>7 DEF DeskInv, RuleWasChosen, UserWasShownOtherwise
<1>6. ASSUME Desk!CheckRules(s) PROVE DeskInv' /\ RuleWasChosen /\ UserWasShownOtherwise
  <2> DEFINE picked == {k \in Rules : order[s].changes[k] # None}
  <2>1. /\ \/ order' = [order EXCEPT ![s].at = "upsert", ![s].left = picked]
           \/ order' = [order EXCEPT ![s] = Desk!Quiet]
        /\ UNCHANGED <<override, account, badge, sheet, row, touched>>
    BY <1>6 DEF Desk!CheckRules, Desk!End
  <2>2. /\ order'[s].at \in {"upsert", "free"} /\ order'[s].left \subseteq picked
        /\ order'[s].changes = order[s].changes \/ order'[s] = Desk!Quiet
        /\ order'[s].at = "free" => order'[s] = Desk!Quiet
    BY <1>2, <2>1, QuietAsk DEF Orders
  <2>3. picked \subseteq touched[s]
    BY <1>3 DEF SheetIsChosen
  <2> DEFINE next == [order[s] EXCEPT !.at = "upsert", !.left = picked]
  <2>4. order' \in [Staff -> Orders]
    <3>1. next \in Orders
      BY <1>2 DEF Orders, DeskPlaces
    <3>2. order' = [order EXCEPT ![s] = next] \/ order' = [order EXCEPT ![s] = Desk!Quiet]
      BY <2>1
    <3> QED
      BY <1>2, <3>1, <3>2, QuietAsk
  <2>6. SheetIsChosen(s)' /\ AskIsAChange(s)'
    BY <1>3, <2>1, <2>2, <2>3, QuietAsk DEF SheetIsChosen, AskIsAChange
  <2>7. \A t \in Staff : SheetIsChosen(t)' /\ AskIsAChange(t)'
    BY <1>2, <2>1, <2>6, DeskFrame
  <2> QED
    BY <1>2, <2>1, <2>4, <2>7 DEF DeskInv, RuleWasChosen, UserWasShownOtherwise
<1>7. ASSUME Desk!RulesSaved(s) PROVE DeskInv' /\ RuleWasChosen /\ UserWasShownOtherwise
  <2>1. /\ order' = [order EXCEPT ![s] = Desk!Quiet] /\ UNCHANGED <<override, account, badge, row>>
        /\ sheet' = [sheet EXCEPT ![s] = [rules |-> Desk!Effective, initial |-> Desk!Effective]]
        /\ touched' = [touched EXCEPT ![s] = {}]
    BY <1>7 DEF Desk!RulesSaved, Desk!End
  <2>2. order'[s] = Desk!Quiet /\ sheet'[s].rules = sheet'[s].initial
    BY <1>2, <2>1
  <2>4. order' \in [Staff -> Orders] /\ sheet' \in [Staff -> [rules : Desk!Sheet, initial : Desk!Sheet]] /\ touched' \in [Staff -> SUBSET Rules]
    BY <1>2, <2>1, QuietAsk, RulesAreASheet
  <2>6. SheetIsChosen(s)' /\ AskIsAChange(s)'
    BY <2>2, QuietAsk DEF SheetIsChosen, AskIsAChange
  <2>7. \A t \in Staff : SheetIsChosen(t)' /\ AskIsAChange(t)'
    BY <1>2, <2>1, <2>6, DeskFrame
  <2> QED
    BY <1>2, <2>1, <2>4, <2>7 DEF DeskInv, RuleWasChosen, UserWasShownOtherwise
<1>8. ASSUME Desk!RulesRefused(s) PROVE DeskInv' /\ RuleWasChosen /\ UserWasShownOtherwise
  <2>1. order' = [order EXCEPT ![s] = Desk!Quiet] /\ UNCHANGED <<override, account, badge, sheet, row, touched>>
    BY <1>8 DEF Desk!RulesRefused, Desk!End
  <2>2. order'[s] = Desk!Quiet
    BY <1>2, <2>1
  <2>4. order' \in [Staff -> Orders]
    BY <1>2, <2>1, QuietAsk
  <2>6. SheetIsChosen(s)' /\ AskIsAChange(s)'
    BY <1>3, <2>1, <2>2, QuietAsk DEF SheetIsChosen, AskIsAChange
  <2>7. \A t \in Staff : SheetIsChosen(t)' /\ AskIsAChange(t)'
    BY <1>2, <2>1, <2>6, DeskFrame
  <2> QED
    BY <1>2, <2>1, <2>4, <2>7 DEF DeskInv, RuleWasChosen, UserWasShownOtherwise
<1>9. ASSUME NEW k \in Rules, Desk!UpsertRule(s, k) PROVE DeskInv' /\ RuleWasChosen /\ UserWasShownOtherwise
  <2>1. /\ order[s].at \in {"upsert", "refused"} /\ k \in order[s].left
        /\ \/ order' = [order EXCEPT ![s].left = @ \ {k}]
           \/ order' = [order EXCEPT ![s].left = @ \ {k}, ![s].at = "refused"]
        /\ UNCHANGED <<account, badge, sheet, row, touched>>
    BY <1>9 DEF Desk!UpsertRule
  <2>2. override' = override \/ override' = [override EXCEPT ![k] = order[s].changes[k]]
    BY <1>9 DEF Desk!UpsertRule
  <2>3. /\ order'[s].at \in {"upsert", "refused"} /\ order'[s].left \subseteq order[s].left
        /\ order'[s].changes = order[s].changes
    BY <1>2, <2>1 DEF Orders
  <2>4. order' \in [Staff -> Orders] /\ override' \in [Rules -> Levels \cup {None}]
    <3>1. PICK next \in Orders : order' = [order EXCEPT ![s] = next]
      <4>1. [order[s] EXCEPT !.left = @ \ {k}] \in Orders /\ [order[s] EXCEPT !.left = @ \ {k}, !.at = "refused"] \in Orders
        BY ZenonT(60), <1>2 DEF Orders, DeskPlaces
      <4> QED
        BY <2>1, <4>1
    <3>2. order[s].changes[k] \in Levels \cup {None}
      BY <1>2 DEF Orders, Desk!Changes
    <3> QED
      BY <1>2, <2>2, <3>1, <3>2
  <2>5. RuleWasChosen
    BY <1>2, <1>3, <2>1, <2>2 DEF RuleWasChosen, SheetIsChosen
  <2>6. SheetIsChosen(s)' /\ AskIsAChange(s)'
    BY <1>3, <2>1, <2>3 DEF SheetIsChosen, AskIsAChange
  <2>7. \A t \in Staff : SheetIsChosen(t)' /\ AskIsAChange(t)'
    BY <1>2, <2>1, <2>6, DeskFrame
  <2> QED
    BY <1>2, <2>1, <2>4, <2>5, <2>7 DEF DeskInv, UserWasShownOtherwise
<1>10. ASSUME NEW k \in Rules, NEW l \in Levels, Desk!UpdateRule(s, k, l) PROVE DeskInv' /\ RuleWasChosen /\ UserWasShownOtherwise
  <2>1. /\ sheet' = [sheet EXCEPT ![s].rules[k] = l] /\ touched' = [touched EXCEPT ![s] = @ \cup {k}]
        /\ UNCHANGED <<override, account, badge, row, order>>
    BY <1>10 DEF Desk!UpdateRule
  <2>2. /\ touched'[s] = touched[s] \cup {k} /\ sheet'[s].initial = sheet[s].initial
        /\ \A i \in Rules \ {k} : sheet'[s].rules[i] = sheet[s].rules[i]
    BY <1>2, <2>1 DEF Desk!Sheet
  <2>4. sheet' \in [Staff -> [rules : Desk!Sheet, initial : Desk!Sheet]] /\ touched' \in [Staff -> SUBSET Rules]
    BY <1>2, <2>1 DEF Desk!Sheet
  <2>6. SheetIsChosen(s)' /\ AskIsAChange(s)'
    BY <1>3, <2>1, <2>2 DEF SheetIsChosen, AskIsAChange
  <2>7. \A t \in Staff : SheetIsChosen(t)' /\ AskIsAChange(t)'
    BY <1>2, <2>1, <2>6, DeskFrame
  <2> QED
    BY <1>2, <2>1, <2>4, <2>7 DEF DeskInv, RuleWasChosen, UserWasShownOtherwise
<1>11. ASSUME Desk!OpenUsers(s) PROVE DeskInv' /\ RuleWasChosen /\ UserWasShownOtherwise
  <2>1. /\ \E shown \in [Staff -> Desk!Account \cup {None}] : row' = [row EXCEPT ![s] = shown]
        /\ UNCHANGED <<override, account, badge, sheet, order, touched>> /\ order[s].at = "free"
    BY <1>2, <1>11 DEF Desk!OpenUsers, Desk!Free
  <2>4. row' \in [Staff -> [Staff -> Desk!Account \cup {None}]]
    BY <1>2, <2>1
  <2>6. SheetIsChosen(s)' /\ AskIsAChange(s)'
    BY <1>3, <2>1 DEF SheetIsChosen, AskIsAChange
  <2>7. \A t \in Staff : SheetIsChosen(t)' /\ AskIsAChange(t)'
    BY <1>2, <2>1, <2>6, DeskFrame
  <2> QED
    BY <1>2, <2>1, <2>4, <2>7 DEF DeskInv, RuleWasChosen, UserWasShownOtherwise
<1>12. ASSUME Desk!FindUser(s) PROVE DeskInv' /\ RuleWasChosen /\ UserWasShownOtherwise
  <2>1. /\ order[s].at \in {"findLevel", "findBlocked", "findDelete"}
        /\ \/ order' = [order EXCEPT ![s].at = CASE order[s].at = "findLevel" -> "level" [] order[s].at = "findBlocked" -> "blocked"
                                                    [] OTHER -> "delete"]
           \/ order' = [order EXCEPT ![s] = Desk!Quiet]
        /\ UNCHANGED <<override, account, badge, sheet, row, touched>>
    BY <1>12 DEF Desk!FindUser, Desk!Goto, Desk!End
  <2>2. \/ order'[s] = Desk!Quiet
        \/ /\ order'[s].user = order[s].user /\ order'[s].level = order[s].level /\ order'[s].blocked = order[s].blocked
           /\ order'[s].changes = order[s].changes /\ order'[s].left = order[s].left
           /\ order[s].at = "findLevel" => order'[s].at = "level"
           /\ order[s].at = "findBlocked" => order'[s].at = "blocked"
           /\ order[s].at = "findDelete" => order'[s].at = "delete"
    BY <1>2, <2>1 DEF Orders
  <2>4. order' \in [Staff -> Orders]
    <3>1. \A p \in DeskPlaces : [order[s] EXCEPT !.at = p] \in Orders
      BY <1>2 DEF Orders
    <3>2. \E p \in DeskPlaces : \/ order' = [order EXCEPT ![s] = [order[s] EXCEPT !.at = p]]
                                 \/ order' = [order EXCEPT ![s] = Desk!Quiet]
      BY <2>1 DEF DeskPlaces
    <3> QED
      BY <1>2, <3>1, <3>2, QuietAsk
  <2>6. SheetIsChosen(s)' /\ AskIsAChange(s)'
    BY <1>3, <2>1, <2>2, QuietAsk DEF SheetIsChosen, AskIsAChange
  <2>7. \A t \in Staff : SheetIsChosen(t)' /\ AskIsAChange(t)'
    BY <1>2, <2>1, <2>6, DeskFrame
  <2> QED
    BY <1>2, <2>1, <2>4, <2>7 DEF DeskInv, RuleWasChosen, UserWasShownOtherwise
<1>13. ASSUME Desk!ChangeRole(s) PROVE DeskInv' /\ RuleWasChosen /\ UserWasShownOtherwise
  <2> DEFINE u == order[s].user
             goto == [order[s] EXCEPT !.at = "findBlocked"]
  <2>0. u \in Staff /\ order[s].level \in Levels /\ order[s].level # row[s][u].level /\ order[s].level # None
    BY <1>2, <1>3, <1>13 DEF Desk!ChangeRole, AskIsAChange, Orders
  <2>1. /\ order[s].at = "level" /\ UNCHANGED <<override, badge, sheet, touched>>
        /\ IF account[u] = None THEN order' = [order EXCEPT ![s] = Desk!Quiet] /\ UNCHANGED <<account, row>>
           ELSE /\ account' = [account EXCEPT ![u]["level"] = order[s].level]
                /\ IF order[s].blocked = None
                   THEN order' = [order EXCEPT ![s] = Desk!Quiet] /\ row' = [row EXCEPT ![s][u] = account'[u]]
                   ELSE order' = [order EXCEPT ![s] = goto] /\ UNCHANGED row
    BY <1>13 DEF Desk!ChangeRole, Desk!Update, Desk!Target, Desk!End, Desk!Goto
  <2>2. /\ goto \in Orders /\ goto.at = "findBlocked" /\ goto.user = u /\ goto.level = order[s].level
        /\ goto.blocked = order[s].blocked /\ goto.changes = order[s].changes /\ goto.left = order[s].left
    BY <1>2 DEF Orders, DeskPlaces
  <2> HIDE DEF goto, u
  <2>3. /\ account' \in [Staff -> Desk!Account \cup {None}]
        /\ \A v \in Staff \ {u} : account'[v] = account[v]
        /\ account'[u] # account[u] => /\ account'[u]["blocked"] = account[u]["blocked"]
                                       /\ account'[u]["level"] = order[s].level
    <3>1. CASE account[u] = None
      BY <1>2, <2>1, <3>1
    <3>2. CASE account[u] # None
      <4>1. PICK l \in Levels : l = order[s].level
        BY <2>0
      <4>2. account' = [account EXCEPT ![u]["level"] = l]
        BY <2>1, <3>2, <4>1
      <4> QED
        BY <2>0, <3>2, <4>1, <4>2, LevelIsSet
    <3> QED
      BY <3>1, <3>2
  <2>4. /\ row' \in [Staff -> [Staff -> Desk!Account \cup {None}]] /\ \A t \in Staff \ {s} : row'[t] = row[t]
        /\ order' \in [Staff -> Orders]
        /\ order'[s] = Desk!Quiet \/ (order'[s] = goto /\ row' = row /\ order[s].blocked # None)
    <3>1. row' = row \/ row' = [row EXCEPT ![s][u] = account'[u]]
      BY <2>1
    <3>2. PICK r \in Desk!Account \cup {None} : r = account'[u]
      BY <2>0, <2>3
    <3>3. row' \in [Staff -> [Staff -> Desk!Account \cup {None}]] /\ \A t \in Staff \ {s} : row'[t] = row[t]
      BY <1>2, <2>0, <3>1, <3>2, RowIsShown
    <3>4. \/ order' = [order EXCEPT ![s] = Desk!Quiet]
          \/ order' = [order EXCEPT ![s] = goto] /\ row' = row /\ order[s].blocked # None
      BY <2>1
    <3>5. order' \in [Staff -> Orders] /\ (order'[s] = Desk!Quiet \/ (order'[s] = goto /\ row' = row /\ order[s].blocked # None))
      BY <1>2, <2>2, <3>4, QuietAsk
    <3> QED
      BY <3>3, <3>5
  <2>5. account' \in [Staff -> Desk!Account \cup {None}] /\ UserWasShownOtherwise
    <3>1. row[s][u]["level"] = row[s][u].level /\ order[s].user = u
      BY DEF u
    <3> QED
      BY <2>0, <2>3, <3>1 DEF UserWasShownOtherwise
  <2>6. SheetIsChosen(s)' /\ AskIsAChange(s)'
    <3>1. CASE order'[s] = Desk!Quiet
      BY <1>3, <2>1, <3>1, QuietAsk DEF SheetIsChosen, AskIsAChange
    <3>2. CASE order'[s] = goto /\ row' = row /\ order[s].blocked # None
      <4>1. u = order[s].user
        BY DEF u
      <4> QED
        BY <1>3, <2>0, <2>1, <2>2, <3>2, <4>1 DEF SheetIsChosen, AskIsAChange
    <3> QED
      BY <2>4, <3>1, <3>2
  <2>7. \A t \in Staff : SheetIsChosen(t)' /\ AskIsAChange(t)'
    <3>1. \A t \in Staff \ {s} : order'[t] = order[t]
      BY <1>2, <2>1
    <3> QED
      BY <2>1, <2>4, <2>6, <3>1, DeskFrame
  <2> QED
    BY <1>2, <2>1, <2>4, <2>5, <2>7 DEF DeskInv, RuleWasChosen
<1>14. ASSUME Desk!SetBlocked(s) PROVE DeskInv' /\ RuleWasChosen /\ UserWasShownOtherwise
  <2> DEFINE u == order[s].user
  <2>0. u \in Staff /\ order[s].blocked # row[s][u].blocked /\ order[s].blocked # None /\ order[s].blocked \in BOOLEAN
    BY <1>2, <1>3, <1>14 DEF Desk!SetBlocked, AskIsAChange, Orders
  <2>1. /\ order[s].at = "blocked" /\ UNCHANGED <<override, badge, sheet, touched>>
        /\ order' = [order EXCEPT ![s] = Desk!Quiet]
        /\ IF account[u] = None THEN UNCHANGED <<account, row>>
           ELSE /\ account' = [account EXCEPT ![u]["blocked"] = order[s].blocked]
                /\ row' = [row EXCEPT ![s][u] = account'[u]]
    BY <1>14 DEF Desk!SetBlocked, Desk!Update, Desk!Target, Desk!End
  <2> HIDE DEF u
  <2>3. /\ account' \in [Staff -> Desk!Account \cup {None}]
        /\ \A v \in Staff \ {u} : account'[v] = account[v]
        /\ account'[u] # account[u] => /\ account'[u]["level"] = account[u]["level"]
                                       /\ account'[u]["blocked"] = order[s].blocked
    <3>1. CASE account[u] = None
      BY <1>2, <2>1, <3>1
    <3>2. CASE account[u] # None
      BY <2>0, <2>1, <3>2, BlockIsSet
    <3> QED
      BY <3>1, <3>2
  <2>4. /\ row' \in [Staff -> [Staff -> Desk!Account \cup {None}]] /\ \A t \in Staff \ {s} : row'[t] = row[t]
        /\ order' \in [Staff -> Orders] /\ order'[s] = Desk!Quiet
    <3>1. row' = row \/ row' = [row EXCEPT ![s][u] = account'[u]]
      BY <2>1
    <3>2. PICK r \in Desk!Account \cup {None} : r = account'[u]
      BY <2>0, <2>3
    <3>3. row' \in [Staff -> [Staff -> Desk!Account \cup {None}]] /\ \A t \in Staff \ {s} : row'[t] = row[t]
      BY <1>2, <2>0, <3>1, <3>2, RowIsShown
    <3> QED
      BY <1>2, <2>1, <3>3, QuietAsk
  <2>5. account' \in [Staff -> Desk!Account \cup {None}] /\ UserWasShownOtherwise
    <3>1. row[s][u]["blocked"] = row[s][u].blocked /\ order[s].user = u
      BY <2>0 DEF u
    <3> QED
      BY <2>0, <2>3, <3>1 DEF UserWasShownOtherwise
  <2>6. SheetIsChosen(s)' /\ AskIsAChange(s)'
    BY <1>3, <2>1, <2>4, QuietAsk DEF SheetIsChosen, AskIsAChange
  <2>7. \A t \in Staff : SheetIsChosen(t)' /\ AskIsAChange(t)'
    <3>1. \A t \in Staff \ {s} : order'[t] = order[t]
      BY <1>2, <2>1
    <3> QED
      BY <2>1, <2>4, <2>6, <3>1, DeskFrame
  <2> QED
    BY <1>2, <2>1, <2>4, <2>5, <2>7 DEF DeskInv, RuleWasChosen
<1>15. ASSUME Desk!DeleteUser(s) PROVE DeskInv' /\ RuleWasChosen /\ UserWasShownOtherwise
  <2> DEFINE u == order[s].user
  <2>0. u \in Staff
    BY <1>3, <1>15 DEF Desk!DeleteUser, AskIsAChange
  <2>1. /\ order' = [order EXCEPT ![s] = Desk!Quiet] /\ UNCHANGED <<override, badge, sheet, touched>>
        /\ \/ UNCHANGED <<account, row>>
           \/ account' = [account EXCEPT ![u] = None] /\ row' = [row EXCEPT ![s][u] = None]
    BY <1>15 DEF Desk!DeleteUser, Desk!Target, Desk!End
  <2> HIDE DEF u
  <2>4. /\ row' \in [Staff -> [Staff -> Desk!Account \cup {None}]] /\ \A t \in Staff \ {s} : row'[t] = row[t]
        /\ order' \in [Staff -> Orders] /\ order'[s] = Desk!Quiet
    <3>1. row' = row \/ row' = [row EXCEPT ![s][u] = None]
      BY <2>1
    <3>2. row' \in [Staff -> [Staff -> Desk!Account \cup {None}]] /\ \A t \in Staff \ {s} : row'[t] = row[t]
      BY <1>2, <2>0, <3>1, RowIsShown
    <3> QED
      BY <1>2, <2>1, <3>2, QuietAsk
  <2>5. account' \in [Staff -> Desk!Account \cup {None}] /\ UserWasShownOtherwise
    BY <1>2, <2>0, <2>1 DEF UserWasShownOtherwise
  <2>6. SheetIsChosen(s)' /\ AskIsAChange(s)'
    BY <1>3, <2>1, <2>4, QuietAsk DEF SheetIsChosen, AskIsAChange
  <2>7. \A t \in Staff : SheetIsChosen(t)' /\ AskIsAChange(t)'
    <3>1. \A t \in Staff \ {s} : order'[t] = order[t]
      BY <1>2, <2>1
    <3> QED
      BY <2>1, <2>4, <2>6, <3>1, DeskFrame
  <2> QED
    BY <1>2, <2>1, <2>4, <2>5, <2>7 DEF DeskInv, RuleWasChosen
<1>16. ASSUME Desk!SignInAgain(s) PROVE DeskInv' /\ RuleWasChosen /\ UserWasShownOtherwise
  <2>1. /\ UNCHANGED <<override, account, sheet, row, order, touched>>
        /\ badge' = [badge EXCEPT ![s] = IF account[s] = None THEN None ELSE account[s].level]
    BY <1>16 DEF Desk!SignInAgain
  <2>4. badge' \in [Staff -> Levels \cup {None}]
    BY <1>2, <2>1 DEF Desk!Account
  <2>6. SheetIsChosen(s)' /\ AskIsAChange(s)'
    BY <1>3, <2>1 DEF SheetIsChosen, AskIsAChange
  <2>7. \A t \in Staff : SheetIsChosen(t)' /\ AskIsAChange(t)'
    BY <1>2, <2>1, <2>6, DeskFrame
  <2> QED
    BY <1>2, <2>1, <2>4, <2>7 DEF DeskInv, RuleWasChosen, UserWasShownOtherwise
<1>17. ASSUME NEW u \in Staff, Desk!AskDelete(s, u) PROVE DeskInv' /\ RuleWasChosen /\ UserWasShownOtherwise
  <2> DEFINE sent == [Desk!Quiet EXCEPT !.user = u, !.at = "findDelete"]
  <2>1. order' = [order EXCEPT ![s] = sent] /\ UNCHANGED <<override, account, badge, sheet, row, touched>>
    BY <1>17 DEF Desk!AskDelete, Desk!Begin
  <2>2. sent \in Orders /\ sent.at = "findDelete" /\ sent.user = u /\ sent.changes = Desk!Quiet.changes /\ sent.left = {}
    BY QuietAsk DEF Orders, DeskPlaces
  <2> HIDE DEF sent
  <2>4. order' \in [Staff -> Orders] /\ order'[s] = sent
    BY <1>2, <2>1, <2>2
  <2>6. SheetIsChosen(s)' /\ AskIsAChange(s)'
    BY <1>3, <2>1, <2>2, <2>4, QuietAsk DEF SheetIsChosen, AskIsAChange
  <2>7. \A t \in Staff : SheetIsChosen(t)' /\ AskIsAChange(t)'
    BY <1>2, <2>1, <2>6, DeskFrame
  <2> QED
    BY <1>2, <2>1, <2>4, <2>7 DEF DeskInv, RuleWasChosen, UserWasShownOtherwise
<1>18. ASSUME NEW u \in Staff, NEW l \in Levels, NEW b \in BOOLEAN, Desk!SaveUser(s, u, l, b)
       PROVE  DeskInv' /\ RuleWasChosen /\ UserWasShownOtherwise
  <2> DEFINE level == IF l # row[s][u].level THEN l ELSE None
             blocked == IF b # row[s][u].blocked THEN b ELSE None
             sent == [Desk!Quiet EXCEPT !.user = u, !.level = level, !.blocked = blocked,
                                       !.at = IF level # None THEN "findLevel" ELSE "findBlocked"]
  <2>1. /\ order' = [order EXCEPT ![s] = sent] /\ UNCHANGED <<override, account, badge, sheet, row, touched>>
        /\ <<level, blocked>> # <<None, None>>
    BY <1>18 DEF Desk!SaveUser, Desk!Begin
  <2>2. /\ sent \in Orders /\ sent.at = (IF level # None THEN "findLevel" ELSE "findBlocked") /\ sent.user = u
        /\ sent.level = level /\ sent.blocked = blocked /\ sent.changes = Desk!Quiet.changes /\ sent.left = {}
    BY QuietAsk DEF Orders, DeskPlaces
  <2>3. /\ level # None => level # row[s][u].level
        /\ blocked # None => blocked # row[s][u].blocked
        /\ level # None \/ blocked # None
    BY <2>1
  <2> HIDE DEF sent, level, blocked
  <2>4. order' \in [Staff -> Orders] /\ order'[s] = sent
    BY <1>2, <2>1, <2>2
  <2>6. SheetIsChosen(s)' /\ AskIsAChange(s)'
    BY <1>3, <2>1, <2>2, <2>3, <2>4, QuietAsk DEF SheetIsChosen, AskIsAChange
  <2>7. \A t \in Staff : SheetIsChosen(t)' /\ AskIsAChange(t)'
    BY <1>2, <2>1, <2>6, DeskFrame
  <2> QED
    BY <1>2, <2>1, <2>4, <2>7 DEF DeskInv, RuleWasChosen, UserWasShownOtherwise
<1> QED
  BY <1>1, <1>4, <1>5, <1>6, <1>7, <1>8, <1>9, <1>10, <1>11, <1>12, <1>13, <1>14, <1>15, <1>16, <1>17, <1>18

-----------------------------------------------------------------------------
(* MailDelivery *)

InHand(i) == holding # None /\ holding.mail = i

\* A mail was taken once for each attempt that ended badly and each stall, and once more
\* from the moment the provider may have it until its worker says what became of it.
Counted(i) ==
    LET m == mails[i]
        bad == m.made + m.stalls
    IN  /\ m.at \in {"waiting", "delayed", "failed"} /\ ~InHand(i) => m.taken <= bad
        /\ InHand(i) /\ holding.lock => m.at = "active" /\ (holding.step = "taken" => m.taken <= bad)
        /\ InHand(i) /\ ~holding.lock => /\ m.at \in {"waiting", "failed"} /\ m.taken <= bad
                                         /\ holding.step = "taken" => m.taken + 1 <= bad
        /\ m.taken <= bad + 1
        /\ InHand(i) /\ holding.step = "sent" /\ hasKey => m.taken > 0
        /\ m.at = "completed" /\ hasKey => m.taken > 0

\* Why it is where it is.
InPlace(i) ==
    LET m == mails[i]
    IN  /\ m.at \in {"waiting", "active", "delayed"} => m.made < Attempts /\ m.stalls <= MaxStalled
        /\ m.at = "failed" => m.made = Attempts \/ m.stalls > MaxStalled
        /\ m.stalls > 0 => faults > 0
        /\ m.at = "active" /\ ~Post!Held(i) => faults > 0
        /\ welcome[m.of] = "queued"
        /\ \A j \in DOMAIN mails : mails[j].of = m.of /\ j # i => faults > 0

MailInv ==
    /\ faults \in Nat /\ hasKey \in BOOLEAN /\ valkey \in BOOLEAN
    /\ server \in {"up", "stopping", "closing", "leaving", "down"}
    /\ welcome \in [Newcomers -> {"new", "adding", "queued", "logged", "cut"}]
    /\ mails \in Seq(Post!Mail)
    /\ holding # None => holding \in Post!Hand /\ holding.mail \in DOMAIN mails
    /\ server \in {"closing", "leaving", "down"} => holding = None
    /\ \A i \in DOMAIN mails : Counted(i) /\ InPlace(i)

LEMMA MailConstants == None \notin Post!Hand /\ Attempts \in Nat \ {0} /\ MaxStalled \in Nat /\ MaxFaults \in Nat
BY MCAssumption DEF Post!MailDeliveryAssumption

LEMMA MailStart == ASSUME Post!DInit PROVE MailInv
BY MailConstants DEF Post!DInit, MailInv

LEMMA MailTyped ==
    ASSUME MailInv, NEW i \in DOMAIN mails
    PROVE  /\ mails[i] \in Post!Mail /\ DOMAIN mails = 1..Len(mails) /\ Len(mails) \in Nat
           /\ mails[i].of \in Newcomers /\ mails[i].made \in Nat /\ mails[i].stalls \in Nat /\ mails[i].taken \in Nat
<1>1. mails \in Seq(Post!Mail)
  BY DEF MailInv
<1>2. mails[i] \in Post!Mail /\ DOMAIN mails = 1..Len(mails) /\ Len(mails) \in Nat
  BY <1>1
<1> QED
  BY <1>2, MailConstants DEF Post!Mail

LEMMA MailKept == ASSUME MailInv PROVE Post!LeavesForAReason /\ Post!TakenInBounds
<1>1. \A i \in DOMAIN mails : mails[i].stalls \in Nat
  BY MailTyped
<1>2. ASSUME NEW i \in DOMAIN mails PROVE
          /\ mails[i].at = "completed" /\ hasKey => mails[i].taken > 0
          /\ mails[i].at = "failed" => mails[i].made = Attempts \/ mails[i].stalls > MaxStalled
          /\ faults = 0 => mails[i].stalls = 0
          /\ mails[i].taken <= mails[i].made + mails[i].stalls + 1
          /\ \A j \in DOMAIN mails : mails[j].of = mails[i].of /\ j # i => faults > 0
  <2>1. Counted(i) /\ InPlace(i)
    BY DEF MailInv
  <2> QED
    BY <1>1, <2>1 DEF Counted, InPlace
<1> QED
  BY <1>2 DEF Post!LeavesForAReason, Post!TakenInBounds

\* What a step leaves of a mail that it does not change.
LEMMA MailFrame ==
    ASSUME MailInv, NEW i \in DOMAIN mails, i \in DOMAIN mails', mails'[i] = mails[i], hasKey' = hasKey,
           InHand(i)' => InHand(i) /\ holding' = holding,
           InHand(i) => InHand(i)' /\ holding' = holding,
           welcome[mails[i].of] = "queued" => welcome'[mails[i].of] = "queued",
           faults' \in Nat, faults' >= faults,
           \A j \in DOMAIN mails' : j \in DOMAIN mails => mails'[j].of = mails[j].of,
           \A j \in DOMAIN mails' : j \notin DOMAIN mails => mails'[j].of # mails[i].of
    PROVE  Counted(i)' /\ InPlace(i)'
<1>1. Counted(i) /\ InPlace(i) /\ faults \in Nat
  BY DEF MailInv
<1>2. Counted(i)'
  BY <1>1 DEF Counted, InHand
<1>3. InPlace(i)'
  BY <1>1 DEF InPlace, InHand, Post!Held
<1> QED
  BY <1>2, <1>3

\* What is to be shown of the mail that a step changes, which the worker has or has not.
LEMMA NotInHandAfter ==
    ASSUME NEW i \in DOMAIN mails, NEW m \in Post!Mail, mails'[i] = m, ~InHand(i)', m.taken <= m.made + m.stalls + 1,
           m.at \in {"waiting", "delayed", "failed"} => m.taken <= m.made + m.stalls,
           m.at = "completed" /\ hasKey' => m.taken > 0
    PROVE  Counted(i)'
BY DEF Counted

LEMMA HeldAfter ==
    ASSUME NEW i \in DOMAIN mails, NEW m \in Post!Mail, mails'[i] = m, InHand(i)', holding'.lock, m.at = "active",
           m.taken <= m.made + m.stalls + 1, holding'.step = "taken" => m.taken <= m.made + m.stalls,
           holding'.step = "sent" /\ hasKey' => m.taken > 0
    PROVE  Counted(i)'
BY DEF Counted

LEMMA LostAfter ==
    ASSUME NEW i \in DOMAIN mails, NEW m \in Post!Mail, mails'[i] = m, InHand(i)', ~holding'.lock, m.at \in {"waiting", "failed"},
           m.taken <= m.made + m.stalls, m.taken <= m.made + m.stalls + 1,
           holding'.step = "taken" => m.taken + 1 <= m.made + m.stalls,
           holding'.step = "sent" /\ hasKey' => m.taken > 0
    PROVE  Counted(i)'
BY DEF Counted

LEMMA InPlaceAfter ==
    ASSUME NEW i \in DOMAIN mails, NEW m \in Post!Mail, mails'[i] = m,
           m.at \in {"waiting", "active", "delayed"} => m.made < Attempts /\ m.stalls <= MaxStalled,
           m.at = "failed" => m.made = Attempts \/ m.stalls > MaxStalled,
           m.stalls > 0 => faults' > 0, m.at = "active" /\ ~Post!Held(i)' => faults' > 0, welcome'[m.of] = "queued",
           \A j \in DOMAIN mails' : mails'[j].of = m.of /\ j # i => faults' > 0
    PROVE  InPlace(i)'
BY DEF InPlace

LEMMA MailStep == ASSUME MailInv, Post!DNext PROVE MailInv'
<1> USE MailConstants
<1>1. /\ faults \in Nat /\ hasKey \in BOOLEAN /\ valkey \in BOOLEAN
      /\ server \in {"up", "stopping", "closing", "leaving", "down"}
      /\ welcome \in [Newcomers -> {"new", "adding", "queued", "logged", "cut"}]
      /\ mails \in Seq(Post!Mail)
      /\ holding # None => holding \in Post!Hand /\ holding.mail \in DOMAIN mails
      /\ server \in {"closing", "leaving", "down"} => holding = None
  BY DEF MailInv
<1>2. \A i \in DOMAIN mails : Counted(i) /\ InPlace(i)
  BY DEF MailInv
<1>3. ASSUME NEW r \in Newcomers, Post!SendWelcome(r) PROVE MailInv'
  <2>1. /\ welcome[r] = "new" /\ welcome' = [welcome EXCEPT ![r] = "adding"]
        /\ UNCHANGED <<server, valkey, hasKey, mails, holding, faults>>
    BY <1>3 DEF Post!SendWelcome
  <2>2. ASSUME NEW j \in DOMAIN mails PROVE Counted(j)' /\ InPlace(j)'
    <3>1. welcome[mails[j].of] = "queued" => welcome'[mails[j].of] = "queued"
      BY <1>1, <2>1
    <3> QED
      BY <1>1, <2>1, <3>1, MailFrame DEF InHand
  <2> QED
    BY <1>1, <2>1, <2>2 DEF MailInv
<1>4. ASSUME NEW r \in Newcomers, Post!Enqueue(r) PROVE MailInv'
  <2>1. /\ welcome[r] = "adding" /\ welcome' = [welcome EXCEPT ![r] = "queued"]
        /\ UNCHANGED <<server, valkey, hasKey, holding>>
        /\ \/ mails' = Append(mails, Post!Waiting(r)) /\ faults' = faults
           \/ mails' = mails \o <<Post!Waiting(r), Post!Waiting(r)>> /\ faults' = faults + 1
    BY <1>4 DEF Post!Enqueue, Post!Fault
  <2>2. PICK m \in Post!Mail : m = Post!Waiting(r)
    <3>1. 0 \in 0..Attempts /\ 0 \in 0..MaxStalled + 1 /\ 0 \in Nat
      OBVIOUS
    <3>2. Post!Waiting(r) \in Post!Mail
      BY <3>1 DEF Post!Waiting, Post!Mail
    <3> QED
      BY <3>2
  <2>3. m.of = r /\ m.at = "waiting" /\ m.made = 0 /\ m.stalls = 0 /\ m.taken = 0
    BY <2>2 DEF Post!Waiting
  <2>4. PICK n \in 1..2 : /\ Len(mails') = Len(mails) + n /\ mails' \in Seq(Post!Mail)
                          /\ \A j \in 1..Len(mails) : mails'[j] = mails[j]
                          /\ \A j \in Len(mails) + 1..Len(mails) + n : mails'[j] = m
                          /\ n = 2 => faults' > 0
    <3>1. CASE mails' = Append(mails, m)
      <4>1. /\ Len(mails') = Len(mails) + 1 /\ mails' \in Seq(Post!Mail) /\ \A j \in 1..Len(mails) : mails'[j] = mails[j]
            /\ mails'[Len(mails) + 1] = m
        BY <1>1, <3>1
      <4> QED
        BY <1>1, <4>1
    <3>2. CASE mails' = mails \o <<m, m>> /\ faults' = faults + 1
      <4>1. /\ Len(mails') = Len(mails) + 2 /\ mails' \in Seq(Post!Mail) /\ \A j \in 1..Len(mails) : mails'[j] = mails[j]
            /\ mails'[Len(mails) + 1] = m /\ mails'[Len(mails) + 2] = m
        BY <1>1, <3>2
      <4> QED
        BY <1>1, <3>2, <4>1
    <3> QED
      BY <2>1, <2>2, <3>1, <3>2
  <2>5. faults' \in Nat /\ faults' >= faults /\ DOMAIN mails' = 1..Len(mails) + n /\ DOMAIN mails = 1..Len(mails) /\ Len(mails) \in Nat
    BY <1>1, <2>1, <2>4
  <2>6. \A j \in DOMAIN mails : mails[j].of # r
    BY <1>2, <2>1 DEF InPlace
  <2>7. welcome'[r] = "queued" /\ \A q \in Newcomers \ {r} : welcome'[q] = welcome[q]
    BY <1>1, <2>1
  <2>8. ASSUME NEW j \in DOMAIN mails PROVE Counted(j)' /\ InPlace(j)'
    <3>1. j \in DOMAIN mails' /\ mails'[j] = mails[j] /\ mails[j].of \in Newcomers
      BY <2>4, <2>5, MailTyped
    <3>2. /\ \A i \in DOMAIN mails' : i \in DOMAIN mails => mails'[i].of = mails[i].of
          /\ \A i \in DOMAIN mails' : i \notin DOMAIN mails => mails'[i].of # mails[j].of
      <4>1. \A i \in DOMAIN mails : mails'[i] = mails[i]
        BY <2>4, <2>5
      <4>2. \A i \in DOMAIN mails' : i \notin DOMAIN mails => mails'[i] = m
        BY <2>4, <2>5
      <4>3. mails[j].of # m.of
        BY <2>3, <2>6
      <4> QED
        BY <4>1, <4>2, <4>3
    <3>3. (InHand(j)' <=> InHand(j)) /\ holding' = holding
      BY <2>1 DEF InHand
    <3> QED
      BY <2>1, <2>5, <2>6, <2>7, <3>1, <3>2, <3>3, MailFrame
  <2>9. ASSUME NEW j \in DOMAIN mails' \ DOMAIN mails PROVE Counted(j)' /\ InPlace(j)'
    <3>1. mails'[j] = m /\ ~InHand(j)'
      BY <1>1, <2>1, <2>4, <2>5 DEF InHand
    <3>2. Counted(j)'
      BY <2>3, <3>1 DEF Counted
    <3>3. \A i \in DOMAIN mails' : mails'[i].of = r /\ i # j => faults' > 0
      BY <2>4, <2>5, <2>6
    <3>4. InPlace(j)'
      BY <2>3, <2>7, <3>1, <3>3 DEF InPlace
    <3> QED
      BY <3>2, <3>4
  <2> QED
    BY <1>1, <2>1, <2>4, <2>5, <2>8, <2>9 DEF MailInv
<1>5. ASSUME NEW r \in Newcomers, Post!EnqueueFails(r) PROVE MailInv'
  <2>1. /\ welcome[r] = "adding" /\ welcome' = [welcome EXCEPT ![r] = "logged"]
        /\ UNCHANGED <<server, valkey, hasKey, mails, holding, faults>>
    BY <1>5 DEF Post!EnqueueFails
  <2>2. ASSUME NEW j \in DOMAIN mails PROVE Counted(j)' /\ InPlace(j)'
    <3>1. welcome[mails[j].of] = "queued" => welcome'[mails[j].of] = "queued"
      BY <1>1, <2>1
    <3> QED
      BY <1>1, <2>1, <3>1, MailFrame DEF InHand
  <2> QED
    BY <1>1, <2>1, <2>2 DEF MailInv
<1>6. ASSUME NEW i \in DOMAIN mails, Post!Take(i) PROVE MailInv'
  <2> DEFINE m == [mails[i] EXCEPT !.at = "active"]
             h == [mail |-> i, step |-> "taken", lock |-> TRUE]
  <2>1. /\ server = "up" /\ holding = None /\ mails[i].at = "waiting"
        /\ mails' = [mails EXCEPT ![i] = m] /\ holding' = h
        /\ UNCHANGED <<server, valkey, hasKey, welcome, faults>>
    BY <1>6 DEF Post!Take
  <2>2. m \in Post!Mail /\ m.at = "active" /\ m.of = mails[i].of /\ m.made = mails[i].made /\ m.stalls = mails[i].stalls
        /\ m.taken = mails[i].taken
    BY MailTyped DEF Post!Mail
  <2>3. h \in Post!Hand /\ h.mail = i /\ h.step = "taken" /\ h.lock
    BY MailTyped DEF Post!Hand
  <2> HIDE DEF m, h
  <2>4. mails' \in Seq(Post!Mail) /\ DOMAIN mails' = DOMAIN mails /\ mails'[i] = m /\ \A j \in DOMAIN mails \ {i} : mails'[j] = mails[j]
    BY <1>1, <2>1, <2>2
  <2>5. \A j \in DOMAIN mails : mails'[j].of = mails[j].of
    BY <2>2, <2>4
  <2>6. holding' # None
    BY <2>1, <2>3
  <2>7. Counted(i)' /\ InPlace(i)'
    <3>1. mails[i].taken <= mails[i].made + mails[i].stalls /\ mails[i].taken <= mails[i].made + mails[i].stalls + 1
      BY <1>2, <2>1, MailTyped DEF Counted, InHand
    <3>2. Counted(i)'
      BY <2>1, <2>2, <2>3, <2>4, <3>1 DEF Counted, InHand
    <3>3. InPlace(i)'
      BY <1>2, <2>1, <2>2, <2>3, <2>4, <2>5 DEF InPlace, Post!Held
    <3> QED
      BY <3>2, <3>3
  <2>8. ASSUME NEW j \in DOMAIN mails \ {i} PROVE Counted(j)' /\ InPlace(j)'
    BY <1>1, <2>1, <2>3, <2>4, <2>5, MailFrame DEF InHand
  <2> QED
    BY <1>1, <2>1, <2>3, <2>4, <2>7, <2>8 DEF MailInv
<1>7. ASSUME NEW i \in DOMAIN mails, Post!Retry(i) PROVE MailInv'
  <2> DEFINE m == [mails[i] EXCEPT !.at = "waiting"]
  <2>1. /\ server = "up" /\ mails[i].at = "delayed" /\ mails' = [mails EXCEPT ![i] = m]
        /\ UNCHANGED <<server, valkey, hasKey, welcome, holding, faults>>
    BY <1>7 DEF Post!Retry
  <2>2. m \in Post!Mail /\ m.at = "waiting" /\ m.of = mails[i].of /\ m.made = mails[i].made /\ m.stalls = mails[i].stalls
        /\ m.taken = mails[i].taken
    BY MailTyped DEF Post!Mail
  <2> HIDE DEF m
  <2>4. mails' \in Seq(Post!Mail) /\ DOMAIN mails' = DOMAIN mails /\ mails'[i] = m /\ \A j \in DOMAIN mails \ {i} : mails'[j] = mails[j]
    BY <1>1, <2>1, <2>2
  <2>5. \A j \in DOMAIN mails : mails'[j].of = mails[j].of
    BY <2>2, <2>4
  <2>7. Counted(i)' /\ InPlace(i)'
    <3>1. mails[i].taken <= mails[i].made + mails[i].stalls /\ mails[i].taken <= mails[i].made + mails[i].stalls + 1
          /\ ~InHand(i)
      BY <1>2, <2>1, MailTyped DEF Counted, InHand
    <3>2. Counted(i)'
      BY <2>1, <2>2, <2>4, <3>1 DEF Counted, InHand
    <3>3. InPlace(i)'
      BY <1>2, <2>1, <2>2, <2>4, <2>5 DEF InPlace, Post!Held
    <3> QED
      BY <3>2, <3>3
  <2>8. ASSUME NEW j \in DOMAIN mails \ {i} PROVE Counted(j)' /\ InPlace(j)'
    BY <1>1, <2>1, <2>4, <2>5, MailFrame DEF InHand
  <2> QED
    BY <1>1, <2>1, <2>4, <2>7, <2>8 DEF MailInv
<1>8. ASSUME NEW i \in DOMAIN mails, Post!Stall(i) PROVE MailInv'
  <2> DEFINE m == [mails[i] EXCEPT !.stalls = @ + 1, !.at = IF mails[i].stalls < MaxStalled THEN "waiting" ELSE "failed"]
             h == [holding EXCEPT !.lock = FALSE]
  <2>1. /\ server = "up" /\ mails[i].at = "active" /\ mails' = [mails EXCEPT ![i] = m]
        /\ IF Post!Held(i) THEN faults' = faults + 1 /\ holding' = h ELSE UNCHANGED <<faults, holding>>
        /\ UNCHANGED <<server, valkey, hasKey, welcome>>
    BY <1>8 DEF Post!Stall, Post!Fault
  <2>2. /\ mails[i].stalls <= MaxStalled /\ mails[i].made < Attempts
        /\ mails[i].taken <= mails[i].made + mails[i].stalls + 1 /\ (InHand(i) => holding.lock)
        /\ InHand(i) /\ holding.step = "taken" => mails[i].taken <= mails[i].made + mails[i].stalls
    BY <1>2, <2>1 DEF InPlace, Counted
  <2>3. /\ m \in Post!Mail /\ m.at \in {"waiting", "failed"} /\ m.of = mails[i].of /\ m.made = mails[i].made
        /\ m.stalls = mails[i].stalls + 1 /\ m.taken = mails[i].taken
        /\ (m.at = "waiting" => m.stalls <= MaxStalled) /\ (m.at = "failed" => m.stalls > MaxStalled)
    <3>1. mails[i] \in Post!Mail /\ mails[i].stalls \in 0..MaxStalled
      BY <2>2, MailTyped
    <3>2. /\ m.at = (IF mails[i].stalls < MaxStalled THEN "waiting" ELSE "failed") /\ m.of = mails[i].of
          /\ m.made = mails[i].made /\ m.stalls = mails[i].stalls + 1 /\ m.taken = mails[i].taken
      BY <3>1 DEF Post!Mail
    <3>3. m \in Post!Mail
      <4>1. PICK p \in {"waiting", "failed"} : p = IF mails[i].stalls < MaxStalled THEN "waiting" ELSE "failed"
        OBVIOUS
      <4>2. m = [mails[i] EXCEPT !.stalls = mails[i].stalls + 1, !.at = p] /\ mails[i].stalls + 1 \in 0..MaxStalled + 1
        BY <3>1, <4>1
      <4> QED
        BY <3>1, <4>2 DEF Post!Mail
    <3> QED
      BY <3>1, <3>2, <3>3
  <2>4. /\ holding # None => h \in Post!Hand /\ h.mail = holding.mail /\ h.step = holding.step /\ ~h.lock
        /\ holding' = holding \/ (holding' = h /\ InHand(i))
        /\ holding' # None <=> holding # None
        /\ faults' \in Nat /\ faults' >= faults /\ faults' > 0
        /\ InHand(i) => holding' = h
    <3>1. holding # None => h \in Post!Hand /\ h.mail = holding.mail /\ h.step = holding.step /\ ~h.lock
      BY <1>1 DEF Post!Hand
    <3>2. CASE Post!Held(i)
      <4>1. holding # None /\ h # None /\ InHand(i) /\ holding' = h /\ faults' = faults + 1
        BY <2>1, <3>1, <3>2, MailConstants DEF Post!Held, InHand
      <4> QED
        BY <1>1, <3>1, <4>1
    <3>3. CASE ~Post!Held(i)
      <4>1. faults > 0
        BY <1>2, <2>1, <3>3 DEF InPlace
      <4>2. ~InHand(i) /\ holding' = holding /\ faults' = faults
        BY <2>1, <2>2, <3>3 DEF Post!Held, InHand
      <4> QED
        BY <1>1, <3>1, <4>1, <4>2
    <3> QED
      BY <3>2, <3>3
  <2> HIDE DEF m, h
  <2>5. mails' \in Seq(Post!Mail) /\ DOMAIN mails' = DOMAIN mails /\ mails'[i] = m /\ \A j \in DOMAIN mails \ {i} : mails'[j] = mails[j]
    BY <1>1, <2>1, <2>3
  <2>6. \A j \in DOMAIN mails : mails'[j].of = mails[j].of
    BY <2>3, <2>5
  <2>7. Counted(i)' /\ InPlace(i)'
    <3>1. InHand(i)' <=> InHand(i)
      BY <2>4 DEF InHand
    <3>2. Counted(i)'
      <4>1. m.made + m.stalls = mails[i].made + mails[i].stalls + 1 /\ m.taken <= m.made + m.stalls /\ m.taken \in Nat
            /\ m.taken <= m.made + m.stalls + 1
        BY SMTT(60), <2>2, <2>3, MailTyped
      <4>2. CASE InHand(i)
        <5>1. InHand(i)' /\ ~holding'.lock /\ holding'.step = holding.step
          BY <2>4, <3>1, <4>2 DEF InHand
        <5>2. holding.step = "taken" => m.taken + 1 <= m.made + m.stalls
          BY SMTT(60), <2>2, <2>3, <4>2, MailTyped
        <5>3. holding.step = "sent" /\ hasKey => m.taken > 0
          BY <1>2, <2>3, <4>2 DEF Counted
        <5> QED
          BY <2>1, <2>3, <2>5, <4>1, <5>1, <5>2, <5>3, LostAfter
      <4>3. CASE ~InHand(i)
        <5>1. m.at # "completed"
          BY <2>3
        <5> QED
          BY <2>3, <2>5, <3>1, <4>1, <4>3, <5>1, NotInHandAfter
      <4> QED
        BY <4>2, <4>3
    <3>3. InPlace(i)'
      BY <1>2, <2>1, <2>2, <2>3, <2>4, <2>5, <2>6 DEF InPlace
    <3> QED
      BY <3>2, <3>3
  <2>8. ASSUME NEW j \in DOMAIN mails \ {i} PROVE Counted(j)' /\ InPlace(j)'
    BY <1>1, <2>1, <2>4, <2>5, <2>6, MailFrame DEF InHand
  <2> QED
    BY <1>1, <2>1, <2>4, <2>5, <2>7, <2>8 DEF MailInv
<1>9. ASSUME Post!ProcessEmailJob PROVE MailInv'
  <2>0. PICK i \in DOMAIN mails : holding # None /\ i = holding.mail
    BY <1>1, <1>9 DEF Post!ProcessEmailJob
  <2> DEFINE m == [mails[i] EXCEPT !.taken = @ + 1]
             h(to) == [holding EXCEPT !.step = to]
  <2>1. /\ holding.mail = i /\ holding # None /\ i \in DOMAIN mails /\ holding.step = "taken" /\ holding \in Post!Hand
        /\ UNCHANGED <<server, valkey, hasKey, welcome, faults>>
    BY <1>1, <1>9, <2>0 DEF Post!ProcessEmailJob
  <2>2. PICK to \in {"sent", "error"} :
          /\ holding' = h(to) /\ (mails' = mails \/ mails' = [mails EXCEPT ![i] = m])
          /\ to = "sent" /\ hasKey => mails' = [mails EXCEPT ![i] = m]
    BY <1>9, <2>0 DEF Post!ProcessEmailJob, Post!Step, Post!Received
  <2>3. /\ h(to) \in Post!Hand /\ h(to).mail = i /\ h(to).step = to /\ h(to).lock = holding.lock
        /\ holding' # None
    BY <2>1, <2>2, MailConstants DEF Post!Hand
  <2>4. m \in Post!Mail /\ m.at = mails[i].at /\ m.of = mails[i].of /\ m.made = mails[i].made /\ m.stalls = mails[i].stalls
        /\ m.taken = mails[i].taken + 1
    <3>1. mails[i] \in Post!Mail
      BY <2>1, MailTyped
    <3> QED
      BY <3>1 DEF Post!Mail
  <2>5. /\ mails' \in Seq(Post!Mail) /\ DOMAIN mails' = DOMAIN mails /\ (mails'[i] = m \/ mails'[i] = mails[i])
        /\ (to = "sent" /\ hasKey => mails'[i] = m) /\ \A j \in DOMAIN mails \ {i} : mails'[j] = mails[j]
    BY SMTT(60), <1>1, <2>1, <2>2, <2>4
  <2> HIDE DEF m, h
  <2>6. \A j \in DOMAIN mails : mails'[j].of = mails[j].of
    BY <2>4, <2>5
  <2>7. Counted(i)' /\ InPlace(i)'
    <3>1. InHand(i) /\ InHand(i)'
      BY <2>1, <2>2, <2>3 DEF InHand
    <3>2. /\ mails'[i].at = mails[i].at /\ mails'[i].made = mails[i].made /\ mails'[i].stalls = mails[i].stalls
          /\ mails'[i].taken \in mails[i].taken..mails[i].taken + 1 /\ (to = "sent" /\ hasKey => mails'[i].taken > 0)
      BY <2>1, <2>4, <2>5, MailTyped
    <3>3. Counted(i) /\ InPlace(i)
      BY <1>2, <2>1
    <3>4. PICK n \in Post!Mail : n = mails'[i]
      BY <2>1, <2>4, <2>5, MailTyped
    <3>5. holding'.step = to /\ (holding'.lock <=> holding.lock) /\ to # "taken"
      BY <2>2, <2>3
    <3>6. Counted(i)'
      <4>1. CASE holding.lock
        <5>1. mails[i].at = "active" /\ mails[i].taken <= mails[i].made + mails[i].stalls
          BY <2>1, <3>1, <3>3, <4>1 DEF Counted
        <5>2. n.at = "active" /\ n.taken <= n.made + n.stalls + 1
          BY <2>1, <3>2, <3>4, <5>1, MailTyped
        <5>3. to = "sent" /\ hasKey' => n.taken > 0
          BY <2>1, <3>2, <3>4
        <5> QED
          BY <2>1, <3>1, <3>4, <3>5, <4>1, <5>2, <5>3, HeldAfter
      <4>2. CASE ~holding.lock
        <5>1. mails[i].at \in {"waiting", "failed"} /\ mails[i].taken + 1 <= mails[i].made + mails[i].stalls
          BY <2>1, <3>1, <3>3, <4>2 DEF Counted
        <5>2. n.at \in {"waiting", "failed"} /\ n.taken <= n.made + n.stalls /\ n.taken <= n.made + n.stalls + 1
          BY <2>1, <3>2, <3>4, <5>1, MailTyped
        <5>3. to = "sent" /\ hasKey' => n.taken > 0
          BY <2>1, <3>2, <3>4
        <5> QED
          BY <2>1, <3>1, <3>4, <3>5, <4>2, <5>2, <5>3, LostAfter
      <4> QED
        BY <4>1, <4>2
    <3>7. Post!Held(i)' <=> Post!Held(i)
      BY <2>1, <2>2, <2>3, <3>1, <3>5 DEF Post!Held, InHand
    <3>8. InPlace(i)'
      <4>1. n.at = mails[i].at /\ n.made = mails[i].made /\ n.stalls = mails[i].stalls /\ n.of = mails[i].of
        BY <2>1, <2>6, <3>2, <3>4
      <4>2. \A j \in DOMAIN mails' : mails'[j].of = n.of /\ j # i => faults' > 0
        BY <2>1, <2>5, <2>6, <3>3, <4>1 DEF InPlace
      <4> QED
        BY <2>1, <3>3, <3>4, <3>7, <4>1, <4>2, InPlaceAfter DEF InPlace
    <3> QED
      BY <3>6, <3>8
  <2>8. ASSUME NEW j \in DOMAIN mails \ {i} PROVE Counted(j)' /\ InPlace(j)'
    <3>1. ~InHand(j) /\ ~InHand(j)'
      BY <2>1, <2>2, <2>3 DEF InHand
    <3> QED
      BY <1>1, <2>1, <2>5, <2>6, <3>1, MailFrame
  <2> QED
    BY <1>1, <2>1, <2>2, <2>3, <2>5, <2>7, <2>8 DEF MailInv
<1>10. ASSUME Post!Settle PROVE MailInv'
  <2>0. PICK i \in DOMAIN mails : holding # None /\ i = holding.mail
    BY <1>1, <1>10 DEF Post!Settle
  <2> DEFINE m == IF holding.step = "sent" THEN [mails[i] EXCEPT !.at = "completed"] ELSE Post!Failed(mails[i])
  <2>1. /\ holding.mail = i /\ holding # None /\ i \in DOMAIN mails /\ holding.step # "taken" /\ holding \in Post!Hand /\ holding' = None
        /\ UNCHANGED <<server, valkey, hasKey, welcome, faults>> /\ InHand(i)
        /\ mails' = IF ~holding.lock THEN mails ELSE [mails EXCEPT ![i] = m]
    BY <1>1, <1>10, <2>0 DEF Post!Settle, InHand
  <2>2. mails[i] \in Post!Mail /\ Counted(i) /\ InPlace(i)
    BY <1>2, <2>1, MailTyped
  <2>3. holding.lock => /\ m \in Post!Mail /\ m.of = mails[i].of /\ m.taken = mails[i].taken /\ m.stalls = mails[i].stalls
                        /\ \/ m.at = "completed" /\ m.made = mails[i].made /\ holding.step = "sent"
                           \/ m.at \in {"delayed", "failed"} /\ m.made = mails[i].made + 1
                              /\ (m.at = "delayed" <=> m.made < Attempts)
    <3>1. ASSUME holding.lock PROVE mails[i].made \in 0..Attempts - 1
      BY <2>1, <2>2, <3>1 DEF Counted, InPlace, Post!Mail
    <3>2. CASE holding.step = "sent"
      BY <2>2, <3>2 DEF Post!Mail
    <3>3. ASSUME holding.step # "sent", holding.lock
          PROVE  /\ m \in Post!Mail /\ m.of = mails[i].of /\ m.taken = mails[i].taken /\ m.stalls = mails[i].stalls
                 /\ m.at \in {"delayed", "failed"} /\ m.made = mails[i].made + 1 /\ (m.at = "delayed" <=> m.made < Attempts)
      <4>1. PICK p \in {"delayed", "failed"} : p = IF mails[i].made + 1 < Attempts THEN "delayed" ELSE "failed"
        OBVIOUS
      <4>2. m = [mails[i] EXCEPT !.made = mails[i].made + 1, !.at = p]
        BY <3>3, <4>1 DEF Post!Failed
      <4>3. mails[i].made + 1 \in 0..Attempts
        BY <3>1, <3>3
      <4> QED
        BY <2>2, <4>1, <4>2, <4>3 DEF Post!Mail
    <3> QED
      BY <3>2, <3>3
  <2> HIDE DEF m
  <2>5. /\ mails' \in Seq(Post!Mail) /\ DOMAIN mails' = DOMAIN mails /\ mails'[i] = (IF holding.lock THEN m ELSE mails[i])
        /\ \A j \in DOMAIN mails \ {i} : mails'[j] = mails[j]
    BY <1>1, <2>1, <2>3
  <2>6. \A j \in DOMAIN mails : mails'[j].of = mails[j].of
    BY <2>3, <2>5
  <2>7. Counted(i)' /\ InPlace(i)'
    <3>1. ~InHand(i)' /\ ~Post!Held(i)'
      BY <2>1 DEF InHand, Post!Held
    <3>2. CASE ~holding.lock
      <4>1. mails'[i] = mails[i] /\ mails[i].at \in {"waiting", "failed"} /\ mails[i].taken <= mails[i].made + mails[i].stalls
        BY <2>1, <2>2, <2>5, <3>2 DEF Counted
      <4>2. Counted(i)'
        <5>1. mails[i].taken <= mails[i].made + mails[i].stalls + 1 /\ mails[i].at # "completed"
          BY <2>2, <4>1 DEF Counted
        <5> QED
          BY <2>1, <2>2, <3>1, <4>1, <5>1, NotInHandAfter
      <4>3. InPlace(i)'
        <5>1. \A j \in DOMAIN mails' : mails'[j].of = mails[i].of /\ j # i => faults' > 0
          BY <2>1, <2>2, <2>5, <2>6 DEF InPlace
        <5>2. mails[i].at # "active"
          BY <4>1
        <5> QED
          BY <2>1, <2>2, <4>1, <5>1, <5>2, InPlaceAfter DEF InPlace
      <4> QED
        BY <4>2, <4>3
    <3>3. CASE holding.lock
      <4>1. mails'[i] = m /\ mails[i].at = "active" /\ mails[i].taken <= mails[i].made + mails[i].stalls + 1
            /\ (holding.step = "sent" /\ hasKey => mails[i].taken > 0) /\ mails[i].made < Attempts /\ mails[i].stalls <= MaxStalled
        BY <2>1, <2>2, <2>5, <3>3 DEF Counted, InPlace
      <4>2. PICK n \in Post!Mail : n = m
        BY <2>3, <3>3
      <4>3. /\ n.of = mails[i].of /\ n.taken = mails[i].taken /\ n.stalls = mails[i].stalls
            /\ \/ n.at = "completed" /\ n.made = mails[i].made /\ holding.step = "sent"
               \/ n.at \in {"delayed", "failed"} /\ n.made = mails[i].made + 1
                  /\ (n.at = "delayed" <=> n.made < Attempts)
        BY <2>3, <3>3, <4>2
      <4>4. /\ mails[i].made \in Nat /\ mails[i].stalls \in Nat /\ mails[i].taken \in Nat /\ n.made \in 0..Attempts
            /\ mails'[i] = n
        BY <2>1, <4>1, <4>2, MailTyped DEF Post!Mail
      <4>5. Counted(i)'
        <5>1. n.taken <= n.made + n.stalls + 1
          BY <4>1, <4>3, <4>4
        <5>2. n.at \in {"waiting", "delayed", "failed"} => n.taken <= n.made + n.stalls
          BY <4>1, <4>3, <4>4
        <5>3. n.at = "completed" /\ hasKey' => n.taken > 0
          BY <2>1, <4>1, <4>3
        <5> QED
          BY <2>1, <3>1, <4>4, <5>1, <5>2, <5>3, NotInHandAfter
      <4>6. InPlace(i)'
        <5>1. \A j \in DOMAIN mails' : mails'[j].of = n.of /\ j # i => faults' > 0
          BY <2>1, <2>2, <2>5, <2>6, <4>3 DEF InPlace
        <5>2. n.at \in {"waiting", "active", "delayed"} => n.made < Attempts /\ n.stalls <= MaxStalled
          BY <4>1, <4>3
        <5>3. n.at = "failed" => n.made = Attempts \/ n.stalls > MaxStalled
          BY <4>3, <4>4
        <5>4. (n.stalls > 0 => faults' > 0) /\ welcome'[n.of] = "queued" /\ n.at # "active"
          BY <2>1, <2>2, <4>3 DEF InPlace
        <5> QED
          BY <2>1, <4>4, <5>1, <5>2, <5>3, <5>4, InPlaceAfter
      <4> QED
        BY <4>5, <4>6
    <3> QED
      BY <3>2, <3>3
  <2>8. ASSUME NEW j \in DOMAIN mails \ {i} PROVE Counted(j)' /\ InPlace(j)'
    <3>1. ~InHand(j) /\ ~InHand(j)'
      BY <2>1 DEF InHand
    <3> QED
      BY <1>1, <2>1, <2>5, <2>6, <3>1, MailFrame
  <2> QED
    BY <1>1, <2>1, <2>5, <2>7, <2>8 DEF MailInv
<1>11. ASSUME Post!Crash PROVE MailInv'
  <2>1. /\ faults' = faults + 1 /\ server' = "down" /\ welcome' = Post!Gone /\ holding' = None
        /\ UNCHANGED <<valkey, hasKey, mails>>
    BY <1>11 DEF Post!Crash, Post!Fault
  <2>2. welcome' \in [Newcomers -> {"new", "adding", "queued", "logged", "cut"}]
        /\ \A r \in Newcomers : welcome[r] = "queued" => welcome'[r] = "queued"
    BY <1>1, <2>1 DEF Post!Gone
  <2>3. ASSUME NEW i \in DOMAIN mails PROVE Counted(i)' /\ InPlace(i)'
    <3>1. Counted(i) /\ InPlace(i)
      BY <1>2
    <3>2. Counted(i)'
      BY <2>1, <3>1, MailTyped DEF Counted, InHand
    <3>3. InPlace(i)'
      BY <1>1, <2>1, <2>2, <3>1, MailTyped DEF InPlace, Post!Held
    <3> QED
      BY <3>2, <3>3
  <2> QED
    BY <1>1, <2>1, <2>2, <2>3 DEF MailInv
<1>12. ASSUME Post!Exit PROVE MailInv'
  <2>1. /\ server = "leaving" /\ server' = "down" /\ welcome' = Post!Gone /\ UNCHANGED <<valkey, hasKey, mails, holding, faults>>
    BY <1>12 DEF Post!Exit
  <2>2. welcome' \in [Newcomers -> {"new", "adding", "queued", "logged", "cut"}]
        /\ \A r \in Newcomers : welcome[r] = "queued" => welcome'[r] = "queued"
    BY <1>1, <2>1 DEF Post!Gone
  <2>3. ASSUME NEW i \in DOMAIN mails PROVE Counted(i)' /\ InPlace(i)'
    BY <1>1, <2>1, <2>2, MailTyped, MailFrame DEF InHand
  <2> QED
    BY <1>1, <2>1, <2>2, <2>3 DEF MailInv
<1>13. ASSUME \/ Post!Shutdown \/ Post!StopEmailWorker \/ Post!CloseEmailQueue \/ Post!StartServer
              \/ Post!LoseValkey \/ Post!FindValkey
       PROVE  MailInv'
  <2>1. /\ faults' \in Nat /\ faults' >= faults /\ valkey' \in BOOLEAN /\ UNCHANGED <<hasKey, welcome, mails, holding>>
        /\ server' \in {"up", "stopping", "closing", "leaving", "down"}
        /\ server' \in {"closing", "leaving", "down"} => holding = None
    <3>1. CASE Post!Shutdown
      BY <1>1, <3>1 DEF Post!Shutdown
    <3>2. CASE Post!StopEmailWorker
      BY <1>1, <3>2 DEF Post!StopEmailWorker
    <3>3. CASE Post!CloseEmailQueue
      BY <1>1, <3>3 DEF Post!CloseEmailQueue
    <3>4. CASE Post!StartServer
      BY <1>1, <3>4 DEF Post!StartServer
    <3>5. CASE Post!LoseValkey
      <4>1. faults' = faults + 1 /\ valkey' = FALSE /\ UNCHANGED <<server, hasKey, welcome, mails, holding>>
        BY <3>5 DEF Post!LoseValkey, Post!Fault
      <4>2. faults' \in Nat /\ faults' >= faults
        BY <1>1, <4>1
      <4>3. valkey' \in BOOLEAN
        BY <4>1, Zenon
      <4> QED
        BY <1>1, <4>1, <4>2, <4>3
    <3>6. CASE Post!FindValkey
      BY <1>1, <3>6 DEF Post!FindValkey
    <3> QED
      BY <1>13, <3>1, <3>2, <3>3, <3>4, <3>5, <3>6
  <2>2. ASSUME NEW i \in DOMAIN mails PROVE Counted(i)' /\ InPlace(i)'
    BY <1>1, <2>1, MailTyped, MailFrame DEF InHand
  <2> QED
    BY <1>1, <2>1, <2>2 DEF MailInv
<1> QED
  BY <1>3, <1>4, <1>5, <1>6, <1>7, <1>8, <1>9, <1>10, <1>11, <1>12, <1>13 DEF Post!DNext

-----------------------------------------------------------------------------
(* UserPii *)

\* An e-mail is either as it was typed or protected, and so is a text; a credential likewise.
RowFits(r) ==
    /\ r.email # None => r.sealedEmail = None /\ r.hash = None
    /\ r.email = None => r.hash # None /\ r.sealedEmail = r.hash
    /\ r.text # None => r.sealed = None
RowClean(r) == r.email = None /\ r.text = None /\ RowFits(r)
SecretFits(c) == (c.sealed => c.hash # None /\ c.email = c.hash) /\ (~c.sealed => c.hash = None)
SecretClean(c) == c.sealed /\ SecretFits(c)

\* The tables: nobody shares a hash, no credential is without its user, the text is the one
\* last written, and with a backend up everything is protected.
TablesFit ==
    /\ rows \in Pii!Table(Pii!Row) /\ creds \in Pii!Table(Pii!Credential) /\ written \in Pii!Table(Texts)
    /\ serving \in BOOLEAN
    /\ \A i \in People :
          /\ rows[i] # None => RowFits(rows[i]) /\ Pii!ReadText(rows[i]) = written[i] /\ (serving => RowClean(rows[i]))
          /\ creds[i] # None => rows[i] # None /\ SecretFits(creds[i]) /\ (serving => SecretClean(creds[i]))
    /\ \A i, j \in People : rows[i] # None /\ rows[j] # None /\ rows[i].hash = rows[j].hash => rows[i].hash = None \/ i = j
    /\ \A i, j \in People : creds[i] # None /\ creds[j] # None /\ creds[i].hash = creds[j].hash => creds[i].hash = None \/ i = j

PiiJobs == [at : {"idle", "user", "job", "event", "users", "credentials", "write"}, users : Pii!Table(Pii!Row),
            credentials : Pii!Table(Pii!Credential), failed : BOOLEAN]

\* The job: what it still has to write is what the table has while no backend is up, and was
\* protected when it was read otherwise; what it no longer has is protected, unless it failed.
JobFits ==
    /\ job \in PiiJobs
    /\ job.at \notin {"credentials", "write"} => job.users = Pii!Empty
    /\ job.at # "write" => job.credentials = Pii!Empty
    /\ \A i \in People : job.users[i] # None => IF serving THEN RowClean(job.users[i]) ELSE rows[i] = job.users[i]
    /\ \A i \in People : job.credentials[i] # None =>
            IF serving THEN SecretClean(job.credentials[i]) ELSE creds[i] = job.credentials[i]
    /\ job.at \in {"credentials", "write"} /\ ~serving /\ ~job.failed =>
            \A i \in People : rows[i] # None => job.users[i] # None \/ RowClean(rows[i])
    /\ job.at = "write" /\ ~serving /\ ~job.failed =>
            \A i \in People : creds[i] # None => job.credentials[i] # None \/ SecretClean(creds[i])

DemoFits == demo \in [job : 0..1, event : 0..1]
PiiInv == TablesFit /\ JobFits /\ DemoFits

LEMMA PiiConstants ==
    /\ SeedEmail \in Pii!Normal /\ SeedText \in Texts /\ MaxDeploys \in Nat /\ MaxWrites \in Nat
    /\ NormalOf \in [Typed -> Typed] /\ \A e \in Typed : NormalOf[NormalOf[e]] = NormalOf[e]
    /\ \E p, q \in People : p # q
    /\ None \notin Typed \cup Texts /\ None \notin Pii!Row /\ None \notin Pii!Credential
BY MCAssumption DEF Pii!UserPiiAssumption

LEMMA NormalIsTyped == /\ \A e \in Typed : NormalOf[e] \in Pii!Normal
                       /\ \A n \in Pii!Normal : n \in Typed /\ NormalOf[n] = n /\ n # None
BY PiiConstants DEF Pii!Normal

\* What users are made of.
LEMMA NewUser ==
    ASSUME NEW e \in Typed, NEW t \in Texts \cup {None}
    PROVE  LET r == Pii!Created(e, t)
               c == Pii!Secret(e)
           IN  /\ r \in Pii!Row /\ r # None /\ RowClean(r) /\ Pii!ReadText(r) = t /\ r.hash = NormalOf[e]
               /\ c \in Pii!Credential /\ c # None /\ SecretClean(c) /\ c.hash = NormalOf[e]
<1> DEFINE r == Pii!Created(e, t)
           c == Pii!Secret(e)
<1>1. NormalOf[e] \in Pii!Normal /\ NormalOf[e] \in Typed /\ NormalOf[e] # None
  BY NormalIsTyped
<1>2. r \in Pii!Row /\ r.email = None /\ r.sealedEmail = NormalOf[e] /\ r.hash = NormalOf[e] /\ r.text = None /\ r.sealed = t
  BY <1>1 DEF Pii!Created, Pii!Row
<1>3. c \in Pii!Credential /\ c.email = NormalOf[e] /\ c.sealed /\ c.hash = NormalOf[e]
  BY <1>1 DEF Pii!Secret, Pii!Credential
<1> HIDE DEF r, c
<1>4. r \in Pii!Row /\ r # None /\ RowClean(r) /\ Pii!ReadText(r) = t /\ r.hash = NormalOf[e]
  BY <1>1, <1>2, PiiConstants DEF RowClean, RowFits, Pii!ReadText
<1>5. c \in Pii!Credential /\ c # None /\ SecretClean(c) /\ c.hash = NormalOf[e]
  BY <1>1, <1>3, PiiConstants DEF SecretClean, SecretFits
<1> QED
  BY <1>4, <1>5 DEF r, c

LEMMA RewrittenUser ==
    ASSUME NEW r \in Pii!Row, NEW t \in Texts \cup {None}, RowFits(r)
    PROVE  LET u == Pii!Updated(r, t)
           IN  /\ u \in Pii!Row /\ u # None /\ RowFits(u) /\ (RowClean(r) => RowClean(u)) /\ Pii!ReadText(u) = t /\ u.hash = r.hash
<1> DEFINE u == Pii!Updated(r, t)
<1>1. u \in Pii!Row /\ u.email = r.email /\ u.sealedEmail = r.sealedEmail /\ u.hash = r.hash /\ u.text = None /\ u.sealed = t
  BY DEF Pii!Updated, Pii!Row
<1> HIDE DEF u
<1>2. u # None /\ RowFits(u) /\ (RowClean(r) => RowClean(u)) /\ Pii!ReadText(u) = t
  BY <1>1, PiiConstants DEF RowClean, RowFits, Pii!ReadText
<1> QED
  BY <1>1, <1>2 DEF u

\* What the job writes of a row: the row protected, when it is still as it was read; nothing
\* new, when there was nothing to protect.
LEMMA ProtectedUser ==
    ASSUME NEW r \in Pii!Row, RowFits(r)
    PROVE  LET u == Pii!Protected(r, r)
           IN  /\ u \in Pii!Row /\ u # None /\ RowClean(u) /\ Pii!ReadText(u) = Pii!ReadText(r)
<1> DEFINE u == Pii!Protected(r, r)
<1>1. r.email # None => NormalOf[r.email] \in Pii!Normal /\ NormalOf[r.email] # None
  BY NormalIsTyped DEF Pii!Row
<1>2. /\ u.email = None /\ u.text = None
      /\ u.hash = (IF r.email # None THEN NormalOf[r.email] ELSE r.hash)
      /\ u.sealedEmail = (IF r.email # None THEN NormalOf[r.email] ELSE r.sealedEmail)
      /\ u.sealed = (IF r.text # None THEN r.text ELSE r.sealed)
  BY DEF Pii!Protected, Pii!Row, RowFits
<1>3. u \in Pii!Row
  BY <1>1 DEF Pii!Protected, Pii!Row
<1> HIDE DEF u
<1>4. u # None /\ RowClean(u) /\ Pii!ReadText(u) = Pii!ReadText(r)
  BY <1>1, <1>2, <1>3, PiiConstants DEF RowClean, RowFits, Pii!ReadText
<1> QED
  BY <1>3, <1>4 DEF u

LEMMA NothingToProtect ==
    ASSUME NEW r \in Pii!Row, NEW read \in Pii!Row, RowClean(r), RowClean(read)
    PROVE  Pii!Protected(r, read) = r
BY DEF Pii!Protected, Pii!Row, RowClean

\* What it writes of a credential.
Sealed(c, read) == [c EXCEPT !.hash = IF read.hash = None THEN NormalOf[read.email] ELSE @,
                             !.email = IF read.sealed THEN @ ELSE NormalOf[read.email], !.sealed = TRUE]

LEMMA SealedCredential ==
    ASSUME NEW c \in Pii!Credential, NEW read \in Pii!Credential, SecretFits(c), c = read \/ (SecretClean(c) /\ SecretClean(read))
    PROVE  /\ Sealed(c, read) \in Pii!Credential /\ Sealed(c, read) # None /\ SecretClean(Sealed(c, read))
           /\ SecretClean(c) => Sealed(c, read) = c
<1> DEFINE u == Sealed(c, read)
<1>1. NormalOf[read.email] \in Pii!Normal /\ NormalOf[read.email] # None /\ NormalOf[read.email] \in Typed
  BY NormalIsTyped DEF Pii!Credential
<1>2. u \in Pii!Credential
  BY <1>1 DEF Sealed, Pii!Credential
<1>3. /\ u.sealed /\ u.hash = (IF read.hash = None THEN NormalOf[read.email] ELSE c.hash)
      /\ u.email = (IF read.sealed THEN c.email ELSE NormalOf[read.email])
  BY DEF Sealed, Pii!Credential
<1>4. SecretClean(c) => u = c
  <2>1. ASSUME SecretClean(c) PROVE read.hash # None /\ read.sealed /\ c.sealed
    BY <2>1 DEF SecretClean, SecretFits
  <2> QED
    BY <2>1 DEF Sealed, Pii!Credential
<1> HIDE DEF u
<1>5. u # None /\ SecretClean(u)
  BY <1>1, <1>2, <1>3, PiiConstants DEF SecretClean, SecretFits
<1> QED
  BY <1>2, <1>4, <1>5 DEF u

\* A step that writes what is of one user.
LEMMA UserWritten ==
    ASSUME TablesFit, NEW i \in People, NEW r \in Pii!Row \cup {None}, NEW c \in Pii!Credential \cup {None},
           NEW w \in Texts \cup {None},
           rows' = [rows EXCEPT ![i] = r], creds' = [creds EXCEPT ![i] = c], written' = [written EXCEPT ![i] = w],
           serving' = serving,
           r # None => RowFits(r) /\ Pii!ReadText(r) = w /\ (serving => RowClean(r)),
           c # None => r # None /\ SecretFits(c) /\ (serving => SecretClean(c)),
           r # None => \A j \in People \ {i} : rows[j] # None /\ rows[j].hash = r.hash => r.hash = None,
           c # None => \A j \in People \ {i} : creds[j] # None /\ creds[j].hash = c.hash => c.hash = None
    PROVE  TablesFit' /\ rows'[i] = r /\ creds'[i] = c /\ \A j \in People \ {i} : rows'[j] = rows[j] /\ creds'[j] = creds[j]
<1>1. rows \in Pii!Table(Pii!Row) /\ creds \in Pii!Table(Pii!Credential) /\ written \in Pii!Table(Texts) /\ serving \in BOOLEAN
  BY DEF TablesFit
<1>2. rows' \in Pii!Table(Pii!Row) /\ creds' \in Pii!Table(Pii!Credential) /\ written' \in Pii!Table(Texts)
  BY <1>1 DEF Pii!Table
<1>3. /\ rows'[i] = r /\ creds'[i] = c /\ written'[i] = w
      /\ \A j \in People \ {i} : rows'[j] = rows[j] /\ creds'[j] = creds[j] /\ written'[j] = written[j]
  BY <1>1 DEF Pii!Table
<1>4. \A j \in People :
        /\ rows'[j] # None => RowFits(rows'[j]) /\ Pii!ReadText(rows'[j]) = written'[j] /\ (serving' => RowClean(rows'[j]))
        /\ creds'[j] # None => rows'[j] # None /\ SecretFits(creds'[j]) /\ (serving' => SecretClean(creds'[j]))
  BY <1>3 DEF TablesFit
<1>5. \A k, j \in People : rows'[k] # None /\ rows'[j] # None /\ rows'[k].hash = rows'[j].hash => rows'[k].hash = None \/ k = j
  BY <1>3 DEF TablesFit
<1>6. \A k, j \in People : creds'[k] # None /\ creds'[j] # None /\ creds'[k].hash = creds'[j].hash => creds'[k].hash = None \/ k = j
  BY <1>3 DEF TablesFit
<1>7. serving' \in BOOLEAN
  BY <1>1
<1> QED
  BY <1>2, <1>3, <1>4, <1>5, <1>6, <1>7 DEF TablesFit, RowFits, RowClean, SecretFits, SecretClean, Pii!ReadText

\* What a backend serves.
LEMMA PiiKept == ASSUME PiiInv PROVE Pii!ServedIsProtected /\ Pii!SeededOnce
<1>1. ASSUME serving, NEW i \in Pii!There(rows)
      PROVE  /\ rows[i].email = None /\ rows[i].text = None /\ Pii!ReadText(rows[i]) = written[i]
             /\ \A e \in Typed : NormalOf[e] = Pii!ReadEmail(rows[i]) => Pii!Found(rows, e) = {i}
  <2>1. i \in People /\ rows[i] # None /\ RowClean(rows[i]) /\ Pii!ReadText(rows[i]) = written[i]
    BY <1>1 DEF PiiInv, TablesFit, Pii!There
  <2>2. Pii!ReadEmail(rows[i]) = rows[i].hash /\ rows[i].hash # None
    BY <2>1 DEF RowClean, RowFits, Pii!ReadEmail
  <2>3. ASSUME NEW e \in Typed, NormalOf[e] = rows[i].hash, NEW j \in Pii!Found(rows, e) PROVE j = i
    BY <2>1, <2>2, <2>3 DEF PiiInv, TablesFit, Pii!Found, Pii!There
  <2>4. \A e \in Typed : NormalOf[e] = rows[i].hash => i \in Pii!Found(rows, e)
    BY <1>1 DEF Pii!Found
  <2> QED
    BY <2>1, <2>2, <2>3, <2>4 DEF RowClean
<1>2. ASSUME serving, NEW i \in Pii!There(creds) PROVE creds[i].sealed /\ Pii!Found(creds, creds[i].email) = {i}
  <2>1. i \in People /\ creds[i] # None /\ SecretClean(creds[i]) /\ creds[i] \in Pii!Credential
    BY <1>2 DEF PiiInv, TablesFit, Pii!There, Pii!Table
  <2>2. creds[i].sealed /\ creds[i].email = creds[i].hash /\ creds[i].hash # None /\ creds[i].hash \in Pii!Normal
    BY <2>1 DEF SecretClean, SecretFits, Pii!Credential
  <2>3. NormalOf[creds[i].email] = creds[i].hash
    BY <2>2, NormalIsTyped
  <2>4. ASSUME NEW j \in Pii!Found(creds, creds[i].email) PROVE j = i
    BY <2>1, <2>2, <2>3, <2>4 DEF PiiInv, TablesFit, Pii!Found, Pii!There
  <2>5. i \in Pii!Found(creds, creds[i].email)
    BY <1>2, <2>3 DEF Pii!Found
  <2> QED
    BY <2>2, <2>4, <2>5
<1>3. Pii!SeededOnce
  BY DEF PiiInv, DemoFits, Pii!SeededOnce
<1> QED
  BY <1>1, <1>2, <1>3 DEF Pii!ServedIsProtected

LEMMA IdleJob == Pii!Idle \in PiiJobs /\ Pii!Idle.at = "idle" /\ Pii!Idle.users = Pii!Empty /\ Pii!Idle.credentials = Pii!Empty
                 /\ \A i \in People : Pii!Empty[i] = None
BY DEF Pii!Idle, PiiJobs, Pii!Empty, Pii!Table

LEMMA PiiStart == ASSUME Pii!PInit PROVE PiiInv
<1> DEFINE i == CHOOSE p \in People : TRUE
           j == CHOOSE p \in People \ {i} : TRUE
<1>1. i \in People /\ j \in People /\ i # j
  <2>1. \E p \in People : TRUE
    BY PiiConstants
  <2>2. i \in People
    BY <2>1
  <2> HIDE DEF i
  <2>3. \E p \in People \ {i} : TRUE
    BY PiiConstants
  <2>4. j \in People \ {i}
    BY <2>3
  <2> QED
    BY <2>2, <2>4
<1>2. job = Pii!Idle
  BY DEF Pii!PInit
<1>3. \/ /\ \E e, f \in Typed, t \in Texts \cup {None} :
              /\ e # f
              /\ rows = [Pii!Empty EXCEPT ![i] = Pii!Legacy(e, t), ![j] = Pii!Legacy(f, None)]
              /\ written = [Pii!Empty EXCEPT ![i] = t]
              /\ creds \in {Pii!Empty, [Pii!Empty EXCEPT ![i] = [email |-> e, sealed |-> FALSE, hash |-> None]]}
         /\ demo = [job |-> 0, event |-> 0] /\ serving = FALSE
      \/ /\ rows = [Pii!Empty EXCEPT ![i] = Pii!Created(SeedEmail, SeedText)] /\ written = [Pii!Empty EXCEPT ![i] = SeedText]
         /\ creds = [Pii!Empty EXCEPT ![i] = Pii!Secret(SeedEmail)]
         /\ demo = [job |-> 1, event |-> 1] /\ serving = TRUE
  BY DEF Pii!PInit
<1> HIDE DEF i, j
<1>4. JobFits
  BY <1>2, IdleJob DEF JobFits
<1>5. DemoFits
  BY <1>3 DEF DemoFits
<1>6. TablesFit
  <2>1. ASSUME NEW e \in Typed, NEW f \in Typed, NEW t \in Texts \cup {None},
               rows = [Pii!Empty EXCEPT ![i] = Pii!Legacy(e, t), ![j] = Pii!Legacy(f, None)],
               written = [Pii!Empty EXCEPT ![i] = t],
               creds \in {Pii!Empty, [Pii!Empty EXCEPT ![i] = [email |-> e, sealed |-> FALSE, hash |-> None]]},
               serving = FALSE
        PROVE  TablesFit
    <3> DEFINE plain == [email |-> e, sealed |-> FALSE, hash |-> None]
               one == Pii!Legacy(e, t)
               two == Pii!Legacy(f, None)
    <3>1. plain \in Pii!Credential /\ plain # None /\ SecretFits(plain) /\ plain.hash = None
      <4>1. plain \in Pii!Credential
        BY DEF Pii!Credential
      <4>2. ~plain.sealed /\ plain.hash = None
        OBVIOUS
      <4> HIDE DEF plain
      <4> QED
        BY <4>1, <4>2, PiiConstants DEF SecretFits
    <3>2. one \in Pii!Row /\ one # None /\ RowFits(one) /\ Pii!ReadText(one) = t /\ one.hash = None
      BY PiiConstants DEF Pii!Row, RowFits, Pii!ReadText, Pii!Legacy
    <3>3. two \in Pii!Row /\ two # None /\ RowFits(two) /\ Pii!ReadText(two) = None /\ two.hash = None
      BY PiiConstants DEF Pii!Row, RowFits, Pii!ReadText, Pii!Legacy
    <3> HIDE DEF plain, one, two
    <3>4. /\ rows \in Pii!Table(Pii!Row) /\ creds \in Pii!Table(Pii!Credential) /\ written \in Pii!Table(Texts)
          /\ rows[i] = one /\ rows[j] = two /\ written[i] = t /\ written[j] = None
          /\ \A k \in People \ {i, j} : rows[k] = None
          /\ creds[i] \in {None, plain} /\ \A k \in People \ {i} : creds[k] = None
      BY <1>1, <2>1, <3>1, <3>2, <3>3 DEF Pii!Table, Pii!Empty, plain, one, two
    <3>5. ~serving /\ serving \in BOOLEAN
      BY <2>1
    <3>6. \A k \in People : rows[k] # None => rows[k].hash = None /\ RowFits(rows[k]) /\ Pii!ReadText(rows[k]) = written[k]
      BY <3>2, <3>3, <3>4
    <3>7. \A k \in People : creds[k] # None => creds[k].hash = None /\ SecretFits(creds[k]) /\ rows[k] # None
      BY <3>1, <3>2, <3>4
    <3> QED
      BY <3>4, <3>5, <3>6, <3>7 DEF TablesFit
  <2>2. ASSUME rows = [Pii!Empty EXCEPT ![i] = Pii!Created(SeedEmail, SeedText)], written = [Pii!Empty EXCEPT ![i] = SeedText],
               creds = [Pii!Empty EXCEPT ![i] = Pii!Secret(SeedEmail)], serving = TRUE
        PROVE  TablesFit
    <3>1. PICK r \in Pii!Row, c \in Pii!Credential :
             /\ r = Pii!Created(SeedEmail, SeedText) /\ c = Pii!Secret(SeedEmail)
             /\ r # None /\ RowClean(r) /\ Pii!ReadText(r) = SeedText /\ c # None /\ SecretClean(c)
      BY PiiConstants, NormalIsTyped, NewUser
    <3>2. /\ rows \in Pii!Table(Pii!Row) /\ creds \in Pii!Table(Pii!Credential) /\ written \in Pii!Table(Texts)
          /\ rows[i] = r /\ creds[i] = c /\ written[i] = SeedText
          /\ \A k \in People \ {i} : rows[k] = None /\ creds[k] = None
      BY <1>1, <2>2, <3>1, PiiConstants DEF Pii!Table, Pii!Empty
    <3>3. serving \in BOOLEAN
      BY <2>2
    <3> QED
      BY <3>1, <3>2, <3>3 DEF TablesFit, RowClean, SecretClean
  <2> QED
    BY <1>3, <2>1, <2>2
<1> QED
  BY <1>4, <1>5, <1>6 DEF PiiInv

LEMMA TablesStay == ASSUME TablesFit, UNCHANGED <<rows, creds, written, serving>> PROVE TablesFit'
BY DEF TablesFit, RowFits, RowClean, SecretFits, SecretClean, Pii!ReadText

LEMMA RestingJob ==
    ASSUME job' \in PiiJobs, job'.at \notin {"credentials", "write"}, job'.users = Pii!Empty, job'.credentials = Pii!Empty
    PROVE  JobFits'
BY IdleJob DEF JobFits

\* While a backend is up the job has nothing to write, whatever is written beside it.
LEMMA JobStays == ASSUME JobFits, serving, serving', job' = job PROVE JobFits'
BY DEF JobFits, RowClean, RowFits, SecretClean, SecretFits

\* Where a part of the job is unset.
LEMMA Unset == ASSUME NEW S, NEW t \in Pii!Table(S), NEW i \in People
               PROVE  [t EXCEPT ![i] = None] \in Pii!Table(S) /\ Pii!Empty \in Pii!Table(S) /\ t[i] \in S \cup {None}
BY DEF Pii!Table, Pii!Empty

LEMMA PiiStep == ASSUME PiiInv, Pii!PNext PROVE PiiInv'
<1>1. TablesFit /\ JobFits /\ DemoFits
  BY DEF PiiInv
<1>2. /\ rows \in Pii!Table(Pii!Row) /\ creds \in Pii!Table(Pii!Credential) /\ written \in Pii!Table(Texts) /\ serving \in BOOLEAN
      /\ job \in PiiJobs
  BY <1>1 DEF TablesFit, JobFits
<1>3. demo' = demo => DemoFits'
  BY <1>1 DEF DemoFits
<1>4. ASSUME Pii!Deploy \/ Pii!Die PROVE PiiInv'
  <2>1. UNCHANGED <<rows, creds, demo, serving, written>> /\ (job' = [Pii!Idle EXCEPT !.at = "user"] \/ job' = Pii!Idle)
    BY <1>4 DEF Pii!Deploy, Pii!Die
  <2>2. /\ job' \in PiiJobs /\ job'.at \notin {"credentials", "write"} /\ job'.users = Pii!Empty
        /\ job'.credentials = Pii!Empty
    BY <2>1, IdleJob DEF PiiJobs
  <2> QED
    BY <1>1, <1>3, <2>1, <2>2, TablesStay, RestingJob DEF PiiInv
<1>5. ASSUME Pii!SeedUser PROVE PiiInv'
  <2>1. /\ job.at = "user" /\ UNCHANGED <<demo, serving>> /\ job.users = Pii!Empty /\ job.credentials = Pii!Empty
        /\ job' = [job EXCEPT !.at = "job"] \/ job' = Pii!Idle
    BY <1>1, <1>5 DEF Pii!SeedUser, JobFits
  <2>2. JobFits'
    <3>1. /\ job' \in PiiJobs /\ job'.at \notin {"credentials", "write"} /\ job'.users = Pii!Empty
          /\ job'.credentials = Pii!Empty
      BY <1>2, <2>1, IdleJob DEF PiiJobs
    <3> QED
      BY <3>1, RestingJob
  <2>3. ASSUME NEW i \in Pii!Found(creds, SeedEmail), rows' = [rows EXCEPT ![i] = Pii!Updated(@, SeedText)],
               written' = [written EXCEPT ![i] = SeedText], creds' = creds
        PROVE  TablesFit'
    <3>1. i \in People /\ creds[i] # None /\ rows[i] # None /\ rows[i] \in Pii!Row /\ RowFits(rows[i]) /\ SecretFits(creds[i])
      BY <1>1, <1>2, <2>3 DEF Pii!Found, Pii!There, TablesFit, Pii!Table
    <3>2. PICK r \in Pii!Row : r = Pii!Updated(rows[i], SeedText)
      BY <3>1, PiiConstants, RewrittenUser
    <3>3. r # None /\ RowFits(r) /\ (RowClean(rows[i]) => RowClean(r)) /\ Pii!ReadText(r) = SeedText /\ r.hash = rows[i].hash
      BY <3>1, <3>2, PiiConstants, RewrittenUser
    <3>4. PICK c \in Pii!Credential \cup {None} : c = creds[i]
      BY <1>2, <3>1, Unset
    <3>5. rows' = [rows EXCEPT ![i] = r] /\ creds' = [creds EXCEPT ![i] = c]
      BY <1>2, <2>3, <3>2, <3>4 DEF Pii!Table
    <3>6. serving => RowClean(r) /\ SecretClean(c)
      BY <1>1, <3>1, <3>3, <3>4 DEF TablesFit
    <3>7. /\ \A j \in People \ {i} : rows[j] # None /\ rows[j].hash = r.hash => r.hash = None
          /\ \A j \in People \ {i} : creds[j] # None /\ creds[j].hash = c.hash => c.hash = None
      BY <1>1, <3>1, <3>3, <3>4 DEF TablesFit
    <3>8. SecretFits(c)
      BY <3>1, <3>4
    <3> QED
      <4>1. SeedText \in Texts \cup {None} /\ serving' = serving
        BY <2>1, PiiConstants
      <4>2. RowFits(r) /\ Pii!ReadText(r) = SeedText /\ (serving => RowClean(r)) /\ r # None
        BY <3>3, <3>6
      <4>3. SecretFits(c) /\ (serving => SecretClean(c))
        BY <3>6, <3>8
      <4> QED
        BY <1>1, <2>3, <3>1, <3>5, <3>7, <4>1, <4>2, <4>3, UserWritten
  <2>4. ASSUME Pii!Found(creds, SeedEmail) = {}, ~\E i \in Pii!There(rows) : rows[i].hash = SeedEmail,
               NEW i \in People \ Pii!There(rows), rows' = [rows EXCEPT ![i] = Pii!Created(SeedEmail, SeedText)],
               creds' = [creds EXCEPT ![i] = Pii!Secret(SeedEmail)], written' = [written EXCEPT ![i] = SeedText]
        PROVE  TablesFit'
    <3>1. SeedEmail \in Typed /\ NormalOf[SeedEmail] = SeedEmail
      BY PiiConstants, NormalIsTyped
    <3>2. PICK r \in Pii!Row, c \in Pii!Credential :
             /\ r = Pii!Created(SeedEmail, SeedText) /\ c = Pii!Secret(SeedEmail)
             /\ r # None /\ RowClean(r) /\ Pii!ReadText(r) = SeedText /\ r.hash = SeedEmail
             /\ c # None /\ SecretClean(c) /\ c.hash = SeedEmail
      BY <3>1, PiiConstants, NewUser
    <3>3. /\ \A j \in People : rows[j] # None => rows[j].hash # r.hash
          /\ \A j \in People : creds[j] # None => creds[j].hash # c.hash
      BY <2>4, <3>1, <3>2 DEF Pii!Found, Pii!There
    <3> QED
      BY <1>1, <2>1, <2>4, <3>2, <3>3, UserWritten, PiiConstants DEF RowClean, SecretClean
  <2>5. ASSUME UNCHANGED <<rows, creds, written>> PROVE TablesFit'
    BY <1>1, <2>1, <2>5, TablesStay
  <2>6. TablesFit'
    BY <1>5, <2>3, <2>4, <2>5 DEF Pii!SeedUser
  <2> QED
    BY <1>3, <2>1, <2>2, <2>6 DEF PiiInv
<1>6. ASSUME Pii!SeedSaved PROVE PiiInv'
  <2>1. /\ UNCHANGED <<rows, creds, serving, written>> /\ job.users = Pii!Empty /\ job.credentials = Pii!Empty
        /\ job' = [job EXCEPT !.at = "event"] \/ job' = [job EXCEPT !.at = "users"]
    BY <1>1, <1>6 DEF Pii!SeedSaved, JobFits
  <2>2. /\ job' \in PiiJobs /\ job'.at \notin {"credentials", "write"} /\ job'.users = Pii!Empty
        /\ job'.credentials = Pii!Empty
    BY <1>2, <2>1 DEF PiiJobs
  <2>3. DemoFits'
    BY <1>1, <1>6 DEF Pii!SeedSaved, DemoFits
  <2> QED
    BY <1>1, <2>1, <2>2, <2>3, TablesStay, RestingJob DEF PiiInv
<1>7. ASSUME Pii!ReadTables PROVE PiiInv'
  <2>1. UNCHANGED <<rows, creds, demo, serving, written>>
    BY <1>7 DEF Pii!ReadTables
  <2>2. TablesFit'
    BY <1>1, <2>1, TablesStay
  <2>3. CASE job.at = "users" /\ job' = [job EXCEPT !.users = rows, !.at = "credentials"]
    <3>1. /\ job' \in PiiJobs /\ job'.at = "credentials" /\ job'.users = rows /\ job'.credentials = job.credentials
          /\ job.credentials = Pii!Empty
      BY <1>1, <1>2, <2>3 DEF PiiJobs, JobFits
    <3>2. JobFits'
      BY <1>1, <2>1, <3>1, IdleJob DEF JobFits, TablesFit
    <3> QED
      BY <1>3, <2>1, <2>2, <3>2 DEF PiiInv
  <2>4. CASE job.at = "credentials" /\ job' = [job EXCEPT !.credentials = creds, !.at = "write"]
    <3>1. /\ job' \in PiiJobs /\ job'.at = "write" /\ job'.users = job.users /\ job'.credentials = creds
          /\ (job'.failed <=> job.failed)
      BY <1>2, <2>4 DEF PiiJobs
    <3>2. JobFits'
      BY <1>1, <2>1, <2>4, <3>1 DEF JobFits, TablesFit
    <3> QED
      BY <1>3, <2>1, <2>2, <3>2 DEF PiiInv
  <2> QED
    BY <1>7, <2>3, <2>4 DEF Pii!ReadTables
<1>8. ASSUME NEW i \in People, Pii!ProtectUser(i) PROVE PiiInv'
  <2> DEFINE next == IF rows[i] = None THEN None ELSE Pii!Protected(rows[i], job.users[i])
             refused == next # None /\ Pii!HashTaken(rows, next.hash, i)
  <2>1. /\ job.users[i] # None /\ job.at \in {"credentials", "write"}
        /\ rows' = (IF refused THEN rows ELSE [rows EXCEPT ![i] = next])
        /\ job' = [job EXCEPT !.users = IF refused THEN Pii!Empty ELSE [job.users EXCEPT ![i] = None],
                              !.failed = job.failed \/ refused]
        /\ UNCHANGED <<creds, demo, serving, written>>
    BY <1>8 DEF Pii!ProtectUser
  <2>2. job.users[i] \in Pii!Row /\ (rows[i] # None => rows[i] \in Pii!Row /\ RowFits(rows[i]))
    BY <1>1, <1>2, <2>1, Unset DEF PiiJobs, TablesFit, Pii!Table
  <2>3. /\ serving => RowClean(job.users[i]) /\ (rows[i] # None => RowClean(rows[i]))
        /\ ~serving => rows[i] = job.users[i]
    BY <1>1, <2>1 DEF JobFits, TablesFit
  <2>4. /\ next \in Pii!Row \cup {None} /\ (next = None <=> rows[i] = None)
        /\ next # None => RowClean(next) /\ Pii!ReadText(next) = Pii!ReadText(rows[i])
        /\ serving => next = rows[i]
    <3>1. CASE rows[i] = None
      BY <3>1
    <3>2. CASE rows[i] # None /\ serving
      <4>1. next = rows[i]
        BY <2>2, <2>3, <3>2, NothingToProtect
      <4> QED
        BY <2>2, <2>3, <3>2, <4>1
    <3>3. CASE rows[i] # None /\ ~serving
      <4>1. next = Pii!Protected(rows[i], rows[i])
        BY <2>3, <3>3
      <4> HIDE DEF next
      <4> QED
        BY <2>2, <3>3, <4>1, ProtectedUser
    <3> QED
      BY <3>1, <3>2, <3>3
  <2> HIDE DEF next
  <2>5. PICK r \in Pii!Row \cup {None} : r = next
    BY <2>4
  <2>6. CASE refused
    <3>1. /\ rows' = rows /\ job'.users = Pii!Empty /\ job'.failed /\ job'.at = job.at
          /\ job'.credentials = job.credentials /\ job' \in PiiJobs
      BY <1>2, <2>1, <2>6, IdleJob DEF PiiJobs
    <3>2. TablesFit'
      BY <1>1, <2>1, <3>1, TablesStay
    <3>3. JobFits'
      BY <1>1, <2>1, <3>1, IdleJob DEF JobFits
    <3> QED
      BY <1>3, <2>1, <3>2, <3>3 DEF PiiInv
  <2>7. CASE ~refused
    <3>1. /\ job' \in PiiJobs /\ job'.users = [job.users EXCEPT ![i] = None] /\ (job'.failed <=> job.failed)
          /\ job'.at = job.at /\ job'.credentials = job.credentials
      BY <1>2, <2>1, <2>7, Unset DEF PiiJobs
    <3>2. job'.users[i] = None /\ \A j \in People \ {i} : job'.users[j] = job.users[j]
      BY <1>2, <3>1 DEF PiiJobs, Pii!Table
    <3>3. PICK c \in Pii!Credential \cup {None}, w \in Texts \cup {None} : c = creds[i] /\ w = written[i]
      BY <1>2, Unset
    <3>4. rows' = [rows EXCEPT ![i] = r] /\ creds' = [creds EXCEPT ![i] = c] /\ written' = [written EXCEPT ![i] = w]
      BY <1>2, <2>1, <2>5, <2>7, <3>3 DEF Pii!Table
    <3>5. r # None => RowFits(r) /\ Pii!ReadText(r) = w /\ RowClean(r)
      BY <1>1, <2>4, <2>5, <3>3 DEF TablesFit, RowClean
    <3>6. c # None => r # None /\ SecretFits(c) /\ (serving => SecretClean(c))
      BY <1>1, <2>4, <2>5, <3>3 DEF TablesFit
    <3>7. r # None => \A j \in People \ {i} : rows[j] # None /\ rows[j].hash = r.hash => r.hash = None
      BY <2>5, <2>7 DEF Pii!HashTaken, Pii!There
    <3>8. c # None => \A j \in People \ {i} : creds[j] # None /\ creds[j].hash = c.hash => c.hash = None
      BY <1>1, <3>3 DEF TablesFit
    <3>9. TablesFit' /\ rows'[i] = r /\ \A j \in People \ {i} : rows'[j] = rows[j]
      <4>1. serving' = serving
        BY <2>1
      <4>2. r # None => RowFits(r) /\ Pii!ReadText(r) = w /\ (serving => RowClean(r))
        BY <3>5
      <4>3. c # None => r # None /\ SecretFits(c) /\ (serving => SecretClean(c))
        BY <3>6
      <4> QED
        BY <1>1, <3>4, <3>7, <3>8, <4>1, <4>2, <4>3, UserWritten
    <3>10. JobFits'
      BY <1>1, <2>1, <3>1, <3>2, <3>5, <3>9 DEF JobFits
    <3> QED
      BY <1>3, <2>1, <3>9, <3>10 DEF PiiInv
  <2> QED
    BY <2>6, <2>7
<1>9. ASSUME NEW i \in People, Pii!ProtectCredential(i) PROVE PiiInv'
  <2> DEFINE next == IF creds[i] = None THEN None ELSE Sealed(creds[i], job.credentials[i])
             refused == next # None /\ Pii!HashTaken(creds, next.hash, i)
  <2>1. /\ job.credentials[i] # None /\ job.at = "write"
        /\ creds' = (IF refused THEN creds ELSE [creds EXCEPT ![i] = next])
        /\ job' = [job EXCEPT !.credentials = IF refused THEN Pii!Empty ELSE [job.credentials EXCEPT ![i] = None],
                              !.failed = job.failed \/ refused]
        /\ UNCHANGED <<rows, demo, serving, written>>
    BY <1>9 DEF Pii!ProtectCredential, Sealed
  <2>2. job.credentials[i] \in Pii!Credential /\ (creds[i] # None => creds[i] \in Pii!Credential /\ SecretFits(creds[i]))
    BY <1>1, <1>2, <2>1, Unset DEF PiiJobs, TablesFit, Pii!Table
  <2>3. /\ serving => SecretClean(job.credentials[i]) /\ (creds[i] # None => SecretClean(creds[i]))
        /\ ~serving => creds[i] = job.credentials[i]
    BY <1>1, <2>1 DEF JobFits, TablesFit
  <2>4. /\ next \in Pii!Credential \cup {None} /\ (next = None <=> creds[i] = None)
        /\ next # None => SecretClean(next)
    <3>1. CASE creds[i] = None
      BY <3>1
    <3>2. CASE creds[i] # None
      BY <2>2, <2>3, <3>2, SealedCredential
    <3> QED
      BY <3>1, <3>2
  <2> HIDE DEF next
  <2>5. PICK c \in Pii!Credential \cup {None} : c = next
    BY <2>4
  <2>6. CASE refused
    <3>1. /\ creds' = creds /\ job'.credentials = Pii!Empty /\ job'.failed /\ job'.at = job.at
          /\ job'.users = job.users /\ job' \in PiiJobs
      BY <1>2, <2>1, <2>6, IdleJob DEF PiiJobs
    <3>2. TablesFit'
      BY <1>1, <2>1, <3>1, TablesStay
    <3>3. JobFits'
      BY <1>1, <2>1, <3>1, IdleJob DEF JobFits
    <3> QED
      BY <1>3, <2>1, <3>2, <3>3 DEF PiiInv
  <2>7. CASE ~refused
    <3>1. /\ job' \in PiiJobs /\ job'.credentials = [job.credentials EXCEPT ![i] = None] /\ (job'.failed <=> job.failed)
          /\ job'.at = job.at /\ job'.users = job.users
      BY <1>2, <2>1, <2>7, Unset DEF PiiJobs
    <3>2. job'.credentials[i] = None /\ \A j \in People \ {i} : job'.credentials[j] = job.credentials[j]
      BY <1>2, <3>1 DEF PiiJobs, Pii!Table
    <3>3. PICK r \in Pii!Row \cup {None}, w \in Texts \cup {None} : r = rows[i] /\ w = written[i]
      BY <1>2, Unset
    <3>4. rows' = [rows EXCEPT ![i] = r] /\ creds' = [creds EXCEPT ![i] = c] /\ written' = [written EXCEPT ![i] = w]
      BY <1>2, <2>1, <2>5, <2>7, <3>3 DEF Pii!Table
    <3>5. r # None => RowFits(r) /\ Pii!ReadText(r) = w /\ (serving => RowClean(r))
      BY <1>1, <3>3 DEF TablesFit
    <3>6. c # None => r # None /\ SecretFits(c) /\ SecretClean(c)
      BY <1>1, <2>4, <2>5, <3>3 DEF TablesFit, SecretClean
    <3>7. r # None => \A j \in People \ {i} : rows[j] # None /\ rows[j].hash = r.hash => r.hash = None
      BY <1>1, <3>3 DEF TablesFit
    <3>8. c # None => \A j \in People \ {i} : creds[j] # None /\ creds[j].hash = c.hash => c.hash = None
      BY <2>5, <2>7 DEF Pii!HashTaken, Pii!There
    <3>9. TablesFit' /\ creds'[i] = c /\ \A j \in People \ {i} : creds'[j] = creds[j]
      <4>1. serving' = serving
        BY <2>1
      <4>2. r # None => RowFits(r) /\ Pii!ReadText(r) = w /\ (serving => RowClean(r))
        BY <3>5
      <4>3. c # None => r # None /\ SecretFits(c) /\ (serving => SecretClean(c))
        BY <3>6
      <4>4. TablesFit' /\ rows'[i] = r /\ creds'[i] = c /\ \A j \in People \ {i} : rows'[j] = rows[j] /\ creds'[j] = creds[j]
        <5>1. TablesFit
          BY <1>1
        <5> HIDE DEF refused
        <5> QED
          BY <3>4, <3>7, <3>8, <4>1, <4>2, <4>3, <5>1, UserWritten
      <4> QED
        BY <4>4
    <3>10. JobFits'
      BY <1>1, <2>1, <3>1, <3>2, <3>6, <3>9 DEF JobFits
    <3> QED
      BY <1>3, <2>1, <3>9, <3>10 DEF PiiInv
  <2> QED
    BY <2>6, <2>7
<1>10. ASSUME Pii!Deployed PROVE PiiInv'
  <2>1. /\ job.at = "write" /\ job.users = Pii!Empty /\ job.credentials = Pii!Empty /\ job' = Pii!Idle
        /\ serving' = (serving \/ ~job.failed) /\ UNCHANGED <<rows, creds, demo, written>>
    BY <1>10 DEF Pii!Deployed
  <2>2. serving' \in BOOLEAN /\ (serving' => serving \/ ~job.failed)
    BY <2>1
  <2>3. \A i \in People : serving' => /\ rows[i] # None => RowClean(rows[i])
                                      /\ creds[i] # None => SecretClean(creds[i])
    BY <1>1, <2>1, <2>2, IdleJob DEF JobFits, TablesFit
  <2>4. TablesFit'
    BY <1>1, <2>1, <2>2, <2>3 DEF TablesFit, RowFits, RowClean, SecretFits, SecretClean, Pii!ReadText
  <2>5. JobFits'
    BY <2>1, IdleJob, RestingJob
  <2> QED
    BY <1>3, <2>1, <2>4, <2>5 DEF PiiInv
<1>11. ASSUME NEW i \in People, NEW e \in Typed, NEW t \in Texts, Pii!Register(i, e, t) PROVE PiiInv'
  <2>1. /\ serving /\ rows[i] = None /\ Pii!Found(creds, e) = {} /\ Pii!Found(rows, e) = {}
        /\ rows' = [rows EXCEPT ![i] = Pii!Created(e, t)] /\ creds' = [creds EXCEPT ![i] = Pii!Secret(e)]
        /\ written' = [written EXCEPT ![i] = t] /\ UNCHANGED <<demo, job, serving>>
    BY <1>11 DEF Pii!Register, Pii!Write
  <2>2. PICK r \in Pii!Row, c \in Pii!Credential :
           /\ r = Pii!Created(e, t) /\ c = Pii!Secret(e)
           /\ r # None /\ RowClean(r) /\ Pii!ReadText(r) = t /\ r.hash = NormalOf[e]
           /\ c # None /\ SecretClean(c) /\ c.hash = NormalOf[e]
    BY NewUser
  <2>3. /\ \A j \in People : rows[j] # None => rows[j].hash # r.hash
        /\ \A j \in People : creds[j] # None => creds[j].hash # c.hash
    BY <2>1, <2>2 DEF Pii!Found, Pii!There
  <2>4. TablesFit'
    BY <1>1, <2>1, <2>2, <2>3, UserWritten, PiiConstants DEF RowClean, SecretClean
  <2> QED
    BY <1>1, <1>3, <2>1, <2>4, JobStays DEF PiiInv
<1>12. ASSUME NEW i \in People, NEW t \in Texts \cup {None}, Pii!UpdateProfile(i, t) PROVE PiiInv'
  <2>1. /\ serving /\ rows[i] # None /\ rows' = [rows EXCEPT ![i] = Pii!Updated(@, t)]
        /\ written' = [written EXCEPT ![i] = t] /\ UNCHANGED <<creds, demo, job, serving>>
    BY <1>12 DEF Pii!UpdateProfile, Pii!Write
  <2>2. rows[i] \in Pii!Row /\ RowFits(rows[i]) /\ RowClean(rows[i])
    BY <1>1, <1>2, <2>1 DEF TablesFit, Pii!Table
  <2>3. PICK r \in Pii!Row : r = Pii!Updated(rows[i], t)
    BY <2>2, RewrittenUser
  <2>4. r # None /\ RowClean(r) /\ RowFits(r) /\ Pii!ReadText(r) = t /\ r.hash = rows[i].hash
    BY <2>2, <2>3, RewrittenUser
  <2>5. PICK c \in Pii!Credential \cup {None} : c = creds[i]
    BY <1>2, Unset
  <2>6. rows' = [rows EXCEPT ![i] = r] /\ creds' = [creds EXCEPT ![i] = c]
    BY <1>2, <2>1, <2>3, <2>5 DEF Pii!Table
  <2>7. /\ c # None => SecretFits(c) /\ SecretClean(c)
        /\ \A j \in People \ {i} : rows[j] # None /\ rows[j].hash = r.hash => r.hash = None
        /\ c # None => \A j \in People \ {i} : creds[j] # None /\ creds[j].hash = c.hash => c.hash = None
    BY <1>1, <2>1, <2>4, <2>5 DEF TablesFit
  <2>8. TablesFit'
    BY <1>1, <2>1, <2>4, <2>6, <2>7, UserWritten
  <2> QED
    BY <1>1, <1>3, <2>1, <2>8, JobStays DEF PiiInv
<1>13. ASSUME NEW i \in People, Pii!Delete(i) PROVE PiiInv'
  <2>1. /\ serving /\ rows' = [rows EXCEPT ![i] = None] /\ creds' = [creds EXCEPT ![i] = None]
        /\ written' = [written EXCEPT ![i] = None] /\ UNCHANGED <<demo, job, serving>>
    BY <1>13 DEF Pii!Delete, Pii!Write
  <2>2. TablesFit'
    BY <1>1, <2>1, UserWritten
  <2> QED
    BY <1>1, <1>3, <2>1, <2>2, JobStays DEF PiiInv
<1> QED
  BY <1>4, <1>5, <1>6, <1>7, <1>8, <1>9, <1>10, <1>11, <1>12, <1>13 DEF Pii!PNext

-----------------------------------------------------------------------------
(* LegacyIndex *)

\* Only the publication makes an index active, and there is one publication.
LegacyInv == active \in BOOLEAN /\ (active <=> rebuild = "published")

LEMMA LegacyStart == ASSUME Legacy!LInit PROVE LegacyInv
BY DEF Legacy!LInit, LegacyInv

\* A step keeps it, and takes no key away once an index is active: the script that deletes
\* a batch looks whether one is.
LEMMA LegacyStep == ASSUME LegacyInv, Legacy!LNext PROVE LegacyInv' /\ (active => keys \subseteq keys')
<1>1. CASE Legacy!ClearJobs \/ Legacy!Scan \/ Legacy!ScanOver
  <2>1. UNCHANGED <<active, rebuild, keys>>
    BY <1>1 DEF Legacy!ClearJobs, Legacy!Scan, Legacy!ScanOver
  <2> QED
    BY <2>1 DEF LegacyInv
<1>2. CASE Legacy!SeedStart \/ Legacy!SeedWrite
  <2>1. UNCHANGED <<active, rebuild>>
    BY <1>2 DEF Legacy!SeedStart, Legacy!SeedWrite
  <2>2. keys \subseteq keys'
    BY <1>2 DEF Legacy!SeedStart, Legacy!SeedWrite, Legacy!Write
  <2> QED
    BY <2>1, <2>2 DEF LegacyInv
<1>3. CASE Legacy!DeleteBatch
  BY <1>3 DEF LegacyInv, Legacy!DeleteBatch, Legacy!MayDelete
<1>4. CASE \E k \in Namespace : Legacy!BuildKey(k)
  BY <1>4 DEF LegacyInv, Legacy!BuildKey, Legacy!Write
<1>5. CASE Legacy!Compare
  BY <1>5 DEF LegacyInv, Legacy!Compare
<1>6. CASE Legacy!Publish
  <2>1. ~active /\ active' = TRUE /\ rebuild' = "published"
    BY <1>6 DEF LegacyInv, Legacy!Publish
  <2> QED
    BY <2>1 DEF LegacyInv
<1> QED
  BY <1>1, <1>2, <1>3, <1>4, <1>5, <1>6 DEF Legacy!LNext

-----------------------------------------------------------------------------
(* The backend: the component that runs keeps its invariant, whichever it is. *)

BackendInv ==
    /\ part = "accounts" => IInv
    /\ part = "saved" => SavedInv
    /\ part = "desk" => DeskInv
    /\ part = "paged" => PagedInv
    /\ part = "legacy" => LegacyInv
    /\ part = "limits" => LimitsInv
    /\ part = "pii" => PiiInv
    /\ part = "path" => PathInv
    /\ part = "mail" => MailInv
    /\ part = "demand" => DemandInv

LEMMA BackendStart == MCInit => BackendInv
<1> SUFFICES ASSUME MCInit PROVE BackendInv
  OBVIOUS
<1>1. part = "accounts" => IInv
  BY InitInvariant DEF MCInit
<1>2. part = "desk" => DeskInv
  BY DeskStart DEF MCInit
<1>3. part = "legacy" => LegacyInv
  BY LegacyStart DEF MCInit
<1>4. part = "limits" => LimitsInv
  BY LimitsStart DEF MCInit
<1>5. part = "pii" => PiiInv
  BY PiiStart DEF MCInit
<1>6. part = "path" => PathInv
  BY PathStart DEF MCInit
<1>7. part = "mail" => MailInv
  BY MailStart DEF MCInit
<1>8. part = "demand" => DemandInv
  BY DemandStart DEF MCInit
<1>9. part = "saved" => SavedInv
  BY SavedStart DEF MCInit
<1>10. part = "paged" => PagedInv
  BY PagedStart DEF MCInit
<1> QED
  BY <1>1, <1>2, <1>3, <1>4, <1>5, <1>6, <1>7, <1>8, <1>9, <1>10 DEF BackendInv

everything == <<part, vars, saved, desk, paged, legacy, limits, matching, pii, served, mailing, words, demand>>

\* The invariants speak of the variables of their component only.
LEMMA AccountsStay == IInv /\ UNCHANGED vars => IInv'
BY NextInvariant
LEMMA DeskStays == DeskInv /\ UNCHANGED desk => DeskInv'
BY DEF desk, DeskInv, SheetIsChosen, AskIsAChange
LEMMA LegacyStays == LegacyInv /\ UNCHANGED legacy => LegacyInv'
BY DEF legacy, LegacyInv
LEMMA LimitsStay == LimitsInv /\ UNCHANGED limits => LimitsInv'
BY DEF limits, LimitsInv, Path!MTypeOK, WindowsApart, EndsLate, Placed, Remembered, Distinct, Newest, Within, IsCounted
LEMMA PiiStays == PiiInv /\ UNCHANGED pii => PiiInv'
BY DEF pii, PiiInv, TablesFit, JobFits, DemoFits
LEMMA PathStays == PathInv /\ UNCHANGED served => PathInv'
<1> SUFFICES ASSUME PathInv, chosen' = chosen, answer' = answer PROVE PathInv'
  BY DEF served
<1>1. (chosen \in [Path!RuleNames -> Path!Level \cup {None}])'
  BY DEF PathInv
<1>2. Path!LetInAsChosen'
  BY DEF PathInv, Path!LetInAsChosen, Path!LeastOf
<1>3. Path!CountedByTemplate'
  BY DEF PathInv, Path!CountedByTemplate
<1> QED
  BY <1>1, <1>2, <1>3 DEF PathInv
LEMMA MailStays == MailInv /\ UNCHANGED mailing => MailInv'
BY DEF mailing, MailInv, Counted, InPlace, InHand, Post!Held
LEMMA DemandStays == DemandInv /\ UNCHANGED demand => DemandInv'
BY DEF demand, DemandInv, Demand!OTypeOK, GateIsKept, Demand!CollectsOnlyWhatIsMissing, Demand!SourceIsSpared, Demand!Live

LEMMA BackendStep == BackendInv /\ [MCNext]_everything => BackendInv'
<1> SUFFICES ASSUME BackendInv, MCNext \/ UNCHANGED everything PROVE BackendInv'
  OBVIOUS
<1>1. part' = part
  BY DEF MCNext, everything
<1>2. part = "accounts" => IInv'
  BY NextInvariant, AccountsStay DEF MCNext, BackendInv, everything
<1>3. part = "desk" => DeskInv'
  BY DeskStep, DeskStays DEF MCNext, BackendInv, everything
<1>4. part = "legacy" => LegacyInv'
  BY LegacyStep, LegacyStays DEF MCNext, BackendInv, everything
<1>5. part = "limits" => LimitsInv'
  BY LimitsStep, LimitsStay DEF MCNext, BackendInv, everything
<1>6. part = "pii" => PiiInv'
  BY PiiStep, PiiStays DEF MCNext, BackendInv, everything
<1>7. part = "path" => PathInv'
  BY PathStep, PathStays DEF MCNext, BackendInv, everything
<1>8. part = "mail" => MailInv'
  BY MailStep, MailStays DEF MCNext, BackendInv, everything
<1>9. part = "demand" => DemandInv'
  BY DemandStep, DemandStays DEF MCNext, BackendInv, everything
<1>10. part = "saved" => SavedInv'
  BY SavedStep, SavedStays DEF MCNext, BackendInv, everything
<1>11. part = "paged" => PagedInv'
  BY PagedStep, PagedStays DEF MCNext, BackendInv, everything, paged, Paged!pvars
<1> QED
  BY <1>1, <1>2, <1>3, <1>4, <1>5, <1>6, <1>7, <1>8, <1>9, <1>10, <1>11 DEF BackendInv

LEMMA BackendKept == MCSpec => []BackendInv
BY BackendStart, BackendStep, PTL DEF MCSpec, everything

-----------------------------------------------------------------------------
\* However requests of one key overlap, no more than the allowed number pass in one window,
\* wherever it began; the labels under which requests are counted are names of routes;
\* nothing is collected on demand while the answer is kept, and a source is asked again only
\* after its cadence.
THEOREM LimitsHold == MCSpec => []OnlySoMany
<1>1. BackendInv => OnlySoMany
  BY LimitsKept DEF BackendInv, OnlySoMany, PathInv, DemandInv
<1> QED
  BY <1>1, BackendKept, PTL

\* A clear of the cache takes no key away once an index is published, wherever it was.
THEOREM PublishedIndexIsSpared == MCSpec => ActiveIsSpared
<1>1. BackendInv /\ [MCNext]_everything => [active => keys \subseteq keys']_legacy
  <2> SUFFICES ASSUME BackendInv, MCNext, ~UNCHANGED legacy PROVE active => keys \subseteq keys'
    BY DEF everything
  <2>1. part = "legacy" /\ Legacy!LNext /\ LegacyInv
    BY DEF MCNext, BackendInv
  <2> QED
    BY <2>1, LegacyStep
<1> QED
  BY <1>1, BackendKept, PTL DEF MCSpec, everything, ActiveIsSpared, Legacy!ActiveIsSpared, Legacy!lvars, legacy

\* Administrators who work at once change only the rules and the fields of users they chose
\* to change on their pages, whatever the others stored meanwhile; and a session is let into
\* the administration as the rules were chosen.
THEOREM ChosenIsKept == MCSpec => OnlyWhatWasChosen
<1>1. BackendInv /\ [MCNext]_everything => [RuleWasChosen /\ UserWasShownOtherwise]_desk
  <2> SUFFICES ASSUME BackendInv, MCNext, ~UNCHANGED desk PROVE RuleWasChosen /\ UserWasShownOtherwise
    BY DEF everything
  <2>1. part = "desk" /\ Desk!Next /\ DeskInv
    BY DEF MCNext, BackendInv
  <2> QED
    BY <2>1, DeskStep
<1>2. BackendInv => (part = "path" => Path!LetInAsChosen)
  BY DEF BackendInv, PathInv
<1> QED
  BY <1>1, <1>2, BackendKept, PTL DEF MCSpec, everything, OnlyWhatWasChosen, Desk!OnlyWhatWasChosen, Desk!vars, desk,
     RuleWasChosen, UserWasShownOtherwise

\* A new user is welcomed at most once, and nobody who was there before; the mail is taken
\* again by the provider only for an attempt or a stall that was counted, and a worker that
\* gives it up has used them all.
THEOREM WelcomeIsSentForAReason == MCSpec => []WelcomedOnceOnly
<1>1. BackendInv => WelcomedOnceOnly
  BY MailKept, InvariantWelcomes DEF BackendInv, WelcomedOnceOnly
<1> QED
  BY <1>1, BackendKept, PTL

\* As long as a backend serves, every e-mail, resume and credential in the tables is
\* protected, is found by its hash and reads as it was written; the seed writes once.
THEOREM WhatIsServedIsProtected == MCSpec => []ServedIsProtected
<1>1. BackendInv => ServedIsProtected
  BY PiiKept DEF BackendInv, ServedIsProtected
<1> QED
  BY <1>1, BackendKept, PTL

\* However requests change one application at once, the events it has lead one from the other
\* to the status it is in.
THEOREM HistoryIsKept == MCSpec => []HistoryExplainsStatus
<1>1. BackendInv => HistoryExplainsStatus
  BY DEF BackendInv, HistoryExplainsStatus, SavedInv
<1> QED
  BY <1>1, BackendKept, PTL

\* While nothing is written during a search, a page put together batch by batch is the slice
\* of the whole result, and the page asked for after it repeats no job of the one before and
\* goes on where it ended.
THEOREM PagesGoOn == MCSpec => []PagesContinue
<1>1. BackendInv => PagesContinue
  BY DEF BackendInv, PagesContinue, PagedInv
<1> QED
  BY <1>1, BackendKept, PTL

-----------------------------------------------------------------------------
(* What the invariants above say nothing of: the bounds, and the components *)
(* of which they only say what their properties rest on.                    *)

LegacyKeys == Docs \cup Sets \cup Namespace
LegacyShape ==
    /\ keys \subseteq LegacyKeys /\ seed \in 0..Len(SeedKeys) + 1
    /\ rebuild \in {"building", "valid", "published"}
    /\ clear \in [at : {"job", "jobs", "new", "done", "skipped", "retry"}, batch : SUBSET LegacyKeys, left : SUBSET LegacyKeys]
    /\ clear.left \subseteq keys \cup clear.batch
PathShape ==
    answer # None => answer.q \in Path!Arrivals /\ answer.status \in {200, 400, 401, 403, 404, 500} /\ answer.ran \in BOOLEAN
MatchingShape ==
    /\ ad \in [family : RawFamilies, mode : Modes, place : Seq(Places), text : Seq(Words)]
    /\ user \in [skills : Seq([name : Skills, years : Years]), saved : Preferences \cup {None}]
    /\ known \in {"all", "user", "nothing"}

ShapesInv ==
    /\ part = "desk" => asked \in 0..MaxAsked
    /\ part = "legacy" => LegacyShape
    /\ part = "pii" => deploys \in 0..MaxDeploys /\ writes \in 0..MaxWrites
    /\ part = "path" => PathShape
    /\ part = "mail" => faults \in 0..MaxFaults
    /\ part = "matching" => MatchingShape
    /\ part = "keywords" => Indexed!KTypeOK

LEMMA AskedStep == ASSUME asked \in 0..MaxAsked, Desk!Next PROVE asked' \in 0..MaxAsked
<1>1. MaxAsked \in Nat
  BY DeskConstants DEF Desk!AdminDeskAssumption
<1>2. asked' = asked \/ (asked < MaxAsked /\ asked' = asked + 1)
  <2>1. PICK s \in Staff :
            \/ Desk!OpenRules(s) \/ Desk!SaveRules(s) \/ Desk!CheckRules(s) \/ Desk!RulesSaved(s) \/ Desk!RulesRefused(s)
            \/ \E k \in Rules : Desk!UpsertRule(s, k) \/ \E l \in Levels : Desk!UpdateRule(s, k, l)
            \/ Desk!OpenUsers(s) \/ Desk!FindUser(s) \/ Desk!ChangeRole(s) \/ Desk!SetBlocked(s) \/ Desk!DeleteUser(s)
            \/ Desk!SignInAgain(s)
            \/ \E u \in Staff : Desk!AskDelete(s, u) \/ \E l \in Levels, b \in BOOLEAN : Desk!SaveUser(s, u, l, b)
    BY DEF Desk!Next
  <2>2. CASE Desk!OpenRules(s) \/ Desk!CheckRules(s) \/ Desk!RulesSaved(s) \/ Desk!RulesRefused(s) \/ Desk!OpenUsers(s)
    BY <2>2 DEF Desk!OpenRules, Desk!CheckRules, Desk!RulesSaved, Desk!RulesRefused, Desk!OpenUsers
  <2>3. CASE \E k \in Rules : Desk!UpsertRule(s, k) \/ \E l \in Levels : Desk!UpdateRule(s, k, l)
    BY <2>3 DEF Desk!UpsertRule, Desk!UpdateRule
  <2>4. CASE Desk!FindUser(s) \/ Desk!ChangeRole(s) \/ Desk!SetBlocked(s) \/ Desk!DeleteUser(s) \/ Desk!SignInAgain(s)
    BY <2>4 DEF Desk!FindUser, Desk!ChangeRole, Desk!SetBlocked, Desk!DeleteUser, Desk!SignInAgain
  <2>5. CASE Desk!SaveRules(s)
    BY <2>5 DEF Desk!SaveRules, Desk!Begin
  <2>6. CASE \E u \in Staff : Desk!AskDelete(s, u) \/ \E l \in Levels, b \in BOOLEAN : Desk!SaveUser(s, u, l, b)
    BY <2>6, Zenon DEF Desk!AskDelete, Desk!SaveUser, Desk!Begin
  <2> QED
    BY <2>1, <2>2, <2>3, <2>4, <2>5, <2>6
<1> QED
  BY <1>1, <1>2

LEMMA LegacyConstants ==
    /\ SourceOf \in [Sets -> Namespace] /\ Len(SeedKeys) = 4
    /\ \A i \in 1..4 : SeedKeys[i] \in Docs \cup Sets
<1>1. Len(SeedKeys) = 4 /\ DOMAIN SeedKeys = 1..4
  BY DEF SeedKeys
<1> QED
  BY <1>1, MCAssumption DEF Legacy!LegacyIndexAssumption

LEMMA LegacyShaped == ASSUME Legacy!LInit PROVE LegacyShape
BY LegacyConstants DEF Legacy!LInit, LegacyShape, LegacyKeys

LEMMA LegacyShapeStep == ASSUME LegacyShape, Legacy!LNext PROVE LegacyShape'
<1> USE LegacyConstants DEF LegacyShape, LegacyKeys
<1>1. CASE Legacy!ClearJobs
  BY <1>1 DEF Legacy!ClearJobs, Legacy!Match
<1>2. CASE Legacy!Scan
  <2>1. PICK b \in SUBSET (keys \cap Legacy!Match(clear.at)) :
            clear.batch = {} /\ clear' = [clear EXCEPT !.batch = b, !.left = @ \ b] /\ UNCHANGED <<active, keys, rebuild, seed>>
    BY <1>2 DEF Legacy!Scan
  <2>2. /\ clear'.at = clear.at /\ clear'.batch = b /\ clear'.left = clear.left \ b
        /\ clear' \in [at : {"job", "jobs", "new", "done", "skipped", "retry"}, batch : SUBSET LegacyKeys, left : SUBSET LegacyKeys]
    BY <2>1
  <2> QED
    BY <2>1, <2>2
<1>3. CASE Legacy!ScanOver
  BY <1>3 DEF Legacy!ScanOver, Legacy!Match, Legacy!Patterns
<1>4. CASE Legacy!SeedStart
  BY <1>4 DEF Legacy!SeedStart, Legacy!Write
<1>5. CASE Legacy!SeedWrite
  BY <1>5 DEF Legacy!SeedWrite, Legacy!Write
<1>6. CASE Legacy!DeleteBatch
  BY <1>6 DEF Legacy!DeleteBatch, Legacy!MayDelete
<1>7. CASE \E k \in Namespace : Legacy!BuildKey(k)
  BY <1>7 DEF Legacy!BuildKey, Legacy!Write
<1>8. CASE Legacy!Compare
  BY <1>8 DEF Legacy!Compare
<1>9. CASE Legacy!Publish
  BY <1>9 DEF Legacy!Publish
<1> QED
  BY <1>1, <1>2, <1>3, <1>4, <1>5, <1>6, <1>7, <1>8, <1>9 DEF Legacy!LNext

LEMMA DeployedStep ==
    ASSUME deploys \in 0..MaxDeploys, writes \in 0..MaxWrites, Pii!PNext
    PROVE  deploys' \in 0..MaxDeploys /\ writes' \in 0..MaxWrites
<1>1. /\ deploys' = deploys \/ (deploys < MaxDeploys /\ deploys' = deploys + 1)
      /\ writes' = writes \/ (writes < MaxWrites /\ writes' = writes + 1)
  BY DEF Pii!PNext, Pii!Deploy, Pii!Die, Pii!SeedUser, Pii!SeedSaved, Pii!ReadTables, Pii!Deployed, Pii!ProtectUser,
     Pii!ProtectCredential, Pii!Delete, Pii!Register, Pii!UpdateProfile, Pii!Write
<1>2. MaxDeploys \in Nat /\ MaxWrites \in Nat
  BY PiiConstants
<1> QED
  BY ONLY <1>1, <1>2, deploys \in 0..MaxDeploys, writes \in 0..MaxWrites

Statuses200 == {200, 400, 401, 403, 404, 500}

LEMMA PathAnswered ==
    ASSUME NEW q \in Path!Arrivals, NEW status \in Statuses200, NEW ran \in BOOLEAN, NEW label,
           Path!Answer(q, status, ran, label)
    PROVE  PathShape'
BY DEF Path!Answer, PathShape, Statuses200

LEMMA PathStatuses ==
    /\ {200, 401, 403, 404} \subseteq Statuses200
    /\ Path!ErrorStatus("body") \in Statuses200 /\ Path!ErrorStatus("origin") \in Statuses200
    /\ Path!ErrorStatus("invalid") \in Statuses200 /\ Path!ErrorStatus("app") \in Statuses200
    /\ Path!ErrorStatus("other") \in Statuses200
BY DEF Statuses200, Path!ErrorStatus

LEMMA PathShapeStep == ASSUME PathShape, Path!Serve PROVE PathShape'
<1>1. PICK q \in Path!Arrivals :
          \/ Path!Unreadable(q) \/ Path!OriginRefused(q) \/ Path!Unauthenticated(q) \/ Path!RoleRefused(q)
          \/ Path!NotFound(q) \/ Path!PermissionRefused(q) \/ Path!InputRefused(q) \/ Path!Handled(q)
  BY DEF Path!Serve
<1>2. CASE Path!Unreadable(q)
  BY <1>2, PathAnswered, PathStatuses, Zenon DEF Path!Unreadable
<1>3. CASE Path!OriginRefused(q)
  BY <1>3, PathAnswered, PathStatuses, Zenon DEF Path!OriginRefused
<1>4. CASE Path!InputRefused(q)
  BY <1>4, PathAnswered, PathStatuses, Zenon DEF Path!InputRefused
<1>5. CASE Path!Unauthenticated(q)
  <2>1. PICK label : Path!Answer(q, 401, FALSE, label)
    BY <1>5, Zenon DEF Path!Unauthenticated
  <2> QED
    BY <2>1, PathAnswered, PathStatuses
<1>6. CASE Path!RoleRefused(q)
  BY <1>6, PathAnswered, PathStatuses DEF Path!RoleRefused
<1>7. CASE Path!NotFound(q)
  BY <1>7, PathAnswered, PathStatuses DEF Path!NotFound
<1>8. CASE Path!PermissionRefused(q)
  BY <1>8, PathAnswered, PathStatuses DEF Path!PermissionRefused
<1>9. CASE Path!Handled(q)
  <2> DEFINE given == CASE q.end = "answered" -> 200 [] q.end = "refused" -> Path!ErrorStatus("app")
                        [] q.end = "thrown" -> Path!ErrorStatus("other")
  <2>1. PICK label : Path!Answer(q, given, TRUE, label)
    BY <1>9, Zenon DEF Path!Handled
  <2>2. q.end \in {"answered", "refused", "thrown"}
    BY DEF Path!Arrivals
  <2>3. given \in Statuses200
    BY <2>2, PathStatuses
  <2> HIDE DEF given
  <2> QED
    BY <2>1, <2>3, PathAnswered
<1> QED
  BY <1>1, <1>2, <1>3, <1>4, <1>5, <1>6, <1>7, <1>8, <1>9

LEMMA FaultsStep == ASSUME faults \in 0..MaxFaults, Post!DNext PROVE faults' \in 0..MaxFaults
<1>1. faults' = faults \/ (faults < MaxFaults /\ faults' = faults + 1)
  BY DEF Post!DNext, Post!SendWelcome, Post!Enqueue, Post!EnqueueFails, Post!Take, Post!Retry, Post!Stall, Post!ProcessEmailJob,
     Post!Settle, Post!Shutdown, Post!StopEmailWorker, Post!CloseEmailQueue, Post!Exit, Post!Crash, Post!StartServer,
     Post!LoseValkey, Post!FindValkey, Post!Fault
<1> QED
  BY <1>1, MailConstants

LEMMA MatchingShapeStep == ASSUME MatchingShape, Matched!JNext PROVE MatchingShape'
<1>1. CASE \E w \in Places : Matched!Place(w)
  <2>1. PICK w \in Places : ad' = [ad EXCEPT !.place = Append(@, w)] /\ UNCHANGED <<user, known>>
    BY <1>1 DEF Matched!Place
  <2>2. ad.place \in Seq(Places) /\ Append(ad.place, w) \in Seq(Places)
    BY <2>1 DEF MatchingShape
  <2> QED
    BY <2>1, <2>2 DEF MatchingShape
<1>2. CASE \E w \in Words : Matched!Describe(w)
  <2>1. PICK w \in Words : ad' = [ad EXCEPT !.text = Append(@, w)] /\ UNCHANGED <<user, known>>
    BY <1>2 DEF Matched!Describe
  <2>2. ad.text \in Seq(Words) /\ Append(ad.text, w) \in Seq(Words)
    BY <2>1 DEF MatchingShape
  <2> QED
    BY <2>1, <2>2 DEF MatchingShape
<1>3. CASE \E n \in Skills, y \in Years : Matched!Learn(n, y)
  <2>1. PICK n \in Skills, y \in Years :
            user' = [user EXCEPT !.skills = Append(@, [name |-> n, years |-> y])] /\ UNCHANGED <<ad, known>>
    BY <1>3 DEF Matched!Learn
  <2>2. PICK skill \in [name : Skills, years : Years] : skill = [name |-> n, years |-> y]
    OBVIOUS
  <2>3. user.skills \in Seq([name : Skills, years : Years]) /\ Append(user.skills, skill) \in Seq([name : Skills, years : Years])
    BY DEF MatchingShape
  <2> QED
    BY <2>1, <2>2, <2>3 DEF MatchingShape
<1>4. CASE \E taste \in Preferences : Matched!Prefer(taste)
  BY <1>4 DEF Matched!Prefer, MatchingShape
<1>5. CASE \E what \in {"all", "user", "nothing"} : Matched!Know(what)
  BY <1>5 DEF Matched!Know, MatchingShape
<1> QED
  BY <1>1, <1>2, <1>3, <1>4, <1>5 DEF Matched!JNext

LEMMA KeywordShapeStep == ASSUME Indexed!KTypeOK, Indexed!KNext PROVE Indexed!KTypeOK'
BY DEF Indexed!KTypeOK, Indexed!KNext, Indexed!Index, Indexed!Configure, Indexed!Indexable

LEMMA ShapesStart == MCInit => ShapesInv
<1> SUFFICES ASSUME MCInit PROVE ShapesInv
  OBVIOUS
<1>1. part = "desk" => asked \in 0..MaxAsked
  BY DeskConstants DEF MCInit, Desk!Init, Desk!AdminDeskAssumption
<1>2. part = "legacy" => LegacyShape
  BY LegacyShaped DEF MCInit
<1>3. part = "pii" => deploys \in 0..MaxDeploys /\ writes \in 0..MaxWrites
  BY PiiConstants DEF MCInit, Pii!PInit
<1>4. part = "path" => PathShape
  BY DEF MCInit, Path!RInit, PathShape
<1>5. part = "mail" => faults \in 0..MaxFaults
  BY MailConstants DEF MCInit, Post!DInit
<1>6. part = "matching" => MatchingShape
  <2> SUFFICES ASSUME Matched!JInit PROVE MatchingShape
    BY DEF MCInit
  <2>1. <<>> \in Seq(Places) /\ <<>> \in Seq(Words) /\ <<>> \in Seq([name : Skills, years : Years])
    OBVIOUS
  <2> QED
    BY <2>1 DEF Matched!JInit, MatchingShape
<1>7. part = "keywords" => Indexed!KTypeOK
  BY DEF MCInit, Indexed!KInit, Indexed!KTypeOK
<1> QED
  BY <1>1, <1>2, <1>3, <1>4, <1>5, <1>6, <1>7 DEF ShapesInv

LEMMA ShapesStep == ShapesInv /\ [MCNext]_everything => ShapesInv'
<1> SUFFICES ASSUME ShapesInv, MCNext \/ UNCHANGED everything PROVE ShapesInv'
  OBVIOUS
<1>1. part' = part
  BY DEF MCNext, everything
<1>2. part = "desk" => (asked \in 0..MaxAsked)'
  BY AskedStep DEF MCNext, ShapesInv, everything, desk
<1>3. part = "legacy" => LegacyShape'
  <2>1. LegacyShape /\ UNCHANGED legacy => LegacyShape'
    BY DEF LegacyShape, legacy
  <2> QED
    BY <2>1, LegacyShapeStep DEF MCNext, ShapesInv, everything
<1>4. part = "pii" => (deploys \in 0..MaxDeploys /\ writes \in 0..MaxWrites)'
  BY DeployedStep DEF MCNext, ShapesInv, everything, pii
<1>5. part = "path" => PathShape'
  <2>1. PathShape /\ UNCHANGED served => PathShape'
    BY DEF PathShape, served
  <2> QED
    BY <2>1, PathShapeStep DEF MCNext, ShapesInv, everything
<1>6. part = "mail" => (faults \in 0..MaxFaults)'
  BY FaultsStep DEF MCNext, ShapesInv, everything, mailing
<1>7. part = "matching" => MatchingShape'
  <2>1. MatchingShape /\ UNCHANGED matching => MatchingShape'
    BY DEF MatchingShape, matching
  <2> QED
    BY <2>1, MatchingShapeStep DEF MCNext, ShapesInv, everything
<1>8. part = "keywords" => Indexed!KTypeOK'
  <2>1. Indexed!KTypeOK /\ UNCHANGED words => Indexed!KTypeOK'
    BY DEF Indexed!KTypeOK, words
  <2> QED
    BY <2>1, KeywordShapeStep DEF MCNext, ShapesInv, everything
<1> QED
  BY <1>1, <1>2, <1>3, <1>4, <1>5, <1>6, <1>7, <1>8 DEF ShapesInv

\* The tables and pages of every component of the backend keep their shape, and what is
\* bounded stays within its bounds.
THEOREM TypesAreKept == MCSpec => []TypesHold
<1>1. ASSUME BackendInv, ShapesInv PROVE TypesHold
  <2>1. part = "desk" => Desk!TypeOK
    <3> SUFFICES ASSUME DeskInv, asked \in 0..MaxAsked PROVE Desk!TypeOK
      BY <1>1 DEF BackendInv, ShapesInv
    <3>1. \A s \in Staff : order[s].at \in DeskPlaces /\ order[s].changes \in Desk!Changes /\ order[s].left \subseteq Rules
      BY DEF DeskInv, Orders
    <3> QED
      BY <3>1 DEF DeskInv, DeskPlaces, Desk!TypeOK
  <2>2. part = "legacy" => Legacy!LTypeOK
    BY <1>1 DEF BackendInv, ShapesInv, LegacyInv, LegacyShape, LegacyKeys, Legacy!LTypeOK, Legacy!Patterns, Legacy!Match
  <2>3. part = "pii" => Pii!PTypeOK
    <3> SUFFICES ASSUME PiiInv, deploys \in 0..MaxDeploys, writes \in 0..MaxWrites PROVE Pii!PTypeOK
      BY <1>1 DEF BackendInv, ShapesInv
    <3>1. /\ job.at \in {"idle", "user", "job", "event", "users", "credentials", "write"}
          /\ job.users \in Pii!Table(Pii!Row) /\ job.credentials \in Pii!Table(Pii!Credential) /\ job.failed \in BOOLEAN
      BY DEF PiiInv, JobFits, PiiJobs
    <3>2. demo \in [job : 0..2, event : 0..2]
      BY DEF PiiInv, DemoFits
    <3> QED
      BY <3>1, <3>2 DEF PiiInv, TablesFit, Pii!PTypeOK
  <2>4. part = "path" => Path!RTypeOK
    BY <1>1 DEF BackendInv, ShapesInv, PathInv, PathShape, Path!RTypeOK
  <2>5. part = "mail" => Post!DTypeOK
    BY <1>1 DEF BackendInv, ShapesInv, MailInv, Post!DTypeOK
  <2>6. part = "matching" => Matched!JTypeOK
    BY <1>1 DEF ShapesInv, MatchingShape, Matched!JTypeOK
  <2>7. /\ part = "accounts" => TypeOK
        /\ part = "saved" => Saved!STypeOK
        /\ part = "paged" => Paged!PTypeOK
        /\ part = "limits" => Path!MTypeOK
        /\ part = "demand" => Demand!OTypeOK
        /\ part = "keywords" => Indexed!KTypeOK
    BY <1>1 DEF BackendInv, ShapesInv, IInv, SavedInv, PagedInv, LimitsInv, DemandInv
  <2> QED
    BY <2>1, <2>2, <2>3, <2>4, <2>5, <2>6, <2>7 DEF TypesHold
<1> QED
  BY <1>1, BackendKept, ShapesStart, ShapesStep, PTL DEF MCSpec, everything
=============================================================================
