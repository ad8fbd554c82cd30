--------------------------- MODULE MCCollection ---------------------------
\* Two providers, one with a catalog adapter and a keyword adapter.  Five tasks,
\* one more than the queue of tasks holds.
EXTENDS Collection, TLC

MCProviders == <<"gupy", "lever">>
MCSources == [gupy |-> <<"gupy-1", "gupy-2">>, lever |-> <<"lever-1">>]
MCTasksOf == "gupy-1" :> 1 @@ "gupy-2" :> 2 @@ "lever-1" :> 2
MCJobsOf == "gupy-1" :> 3 @@ "gupy-2" :> 1 @@ "lever-1" :> 0
MCFallible == {"gupy-1"}
MCOverrides == "lever" :> 3
=============================================================================
