--------------------------- MODULE ExclusiveLease ---------------------------
(***************************************************************************)
(* What the distributed run lock of scraper-go promises to everything that *)
(* starts adapters, with no tokens, scripts, timers or messages: there is  *)
(* at most one owner, ownership never passes from one run straight to     *)
(* another, an owner stays the owner until it asked to end or until its   *)
(* fuel ran out, and fuel is only ever topped up on behalf of the owner.  *)
(***************************************************************************)
EXTENDS Naturals

CONSTANTS Run,      \* the executions that may ever ask for the lock
          NoRun,    \* nobody
          TTL       \* the fuel a claim or an extension gives

VARIABLES owner,    \* the run that owns the lease, or NoRun
          fuel,     \* how long the ownership still lasts
          ended     \* the runs that gave up any claim to the lease

vars == <<owner, fuel, ended>>

Init == owner = NoRun /\ fuel = 0 /\ ended = {}

Claim(r) ==
    /\ owner = NoRun
    /\ owner' = r
    /\ fuel' = TTL
    /\ UNCHANGED ended

Extend(r) ==
    /\ owner = r
    /\ fuel' = TTL
    /\ UNCHANGED <<owner, ended>>

End(r) ==
    /\ ended' = ended \cup {r}
    /\ UNCHANGED <<owner, fuel>>

Yield(r) ==
    /\ owner = r
    /\ r \in ended
    /\ owner' = NoRun
    /\ fuel' = 0
    /\ UNCHANGED ended

Elapse ==
    /\ fuel > 0
    /\ fuel' = fuel - 1
    /\ owner' = IF fuel = 1 THEN NoRun ELSE owner
    /\ UNCHANGED ended

Next ==
    \/ \E r \in Run : Claim(r) \/ Extend(r) \/ End(r) \/ Yield(r)
    \/ Elapse

Spec == Init /\ [][Next]_vars
=============================================================================
