\* Events out of order, requests, retention rules, stops, crashes and failed
\* writes.  The properties are about single names.
SPECIFICATION HistSpec
CONSTANTS
    n1 = n1
    Names = {n1}
    PropsEvent = props
    AnyName = any
    MaxTime = 2
    MaxStops = 2
    MaxCrashes = 1
    MaxFails = 1
    PropSets <- AnySet
    RuleSets <- SomeRules
    NotLoaded = NotLoaded
INVARIANTS
    LatestIsNewest
    QuietStopKeeps
 
