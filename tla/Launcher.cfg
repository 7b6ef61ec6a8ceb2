\* Starts, stops, exits and requests of a core and a plugin.
SPECIFICATION FairSpec
CONSTANTS
    core = core
    a = a
    Plugins <- OnePlugin
    Installed = {}
    Installable = {a}
    Core = core
    Autostart <- AutostartA
    Main = main
    Handlers = {rpc}
    Watcher = watcher0
    NoOne = none
    Requests = {"start", "stop", "startall", "stopall"}
    MaxPID = 2
INVARIANTS
    OneProcessPerPlugin
    CmdsInStartOrder
    RunningIsListed
    StopAllMissesNone
PROPERTIES
    StopTerminates
    KilledIsDelisted
    RequestsReturn
