SPECIFICATION Spec
CONSTANTS
    Window = 3
    Steps = 2
    Horizon = 9
    PodHorizon = 3
    DefaultLimit = 3
    MaxLimit = 3
    Milli = 2
    Now = 13
    Asked = 6
    Questions <- MCQuestions
    Deployments <- MCDeployments
    Namespaces <- MCNamespaces
    Paths <- MCPaths
    Environments <- MCEnvironments
    Numbers <- MCNumbers
CHECK_DEADLOCK FALSE
INVARIANTS EnvironmentsAreFound CutLogsSaySo NamedPodsOnly NothingIsOfferedInVain RebuildsGetTickets RebuildUsesTheSameGitLab PagesReachTheHorizon GlobalReadersSeeGlobalEntries
