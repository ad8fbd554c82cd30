SPECIFICATION FairSpec
CONSTANTS
    Providers <- MCProviders
    Sources <- MCSources
    TasksOf <- MCTasksOf
    JobsOf <- MCJobsOf
    Overrides <- MCOverrides
    Fallible <- MCFallible
    MaxConcurrency = 2
    DefaultLimit = 1
    IncomingCapacity = 2
INVARIANTS WithinBudget SuccessIsComplete NothingOutlivesRun
PROPERTY RunReturns
