\* Two requests at a time on one strategy; five bars after the warm-up, from every
\* kind of bar and exit mode.
SPECIFICATION StrategiesSpec
CONSTANTS
    Requests <- MCRequests
    Documents <- MCDocuments
    Results <- MCResults
    Findings <- MCFindings
    Reports <- MCReports
    Pasts <- MCPasts
    MaxOps = 3
    MaxFaults = 1
    Bars <- MCBars
    Params <- MCParams
    Accounts <- MCAccounts
    MaxBars = 5
INVARIANTS RecordsSound AdviceConsistent BacktestSound PlanSound
PROPERTIES LifecycleSteps
CHECK_DEADLOCK FALSE
