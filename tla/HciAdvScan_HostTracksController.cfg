\* Expected violation of HostTracksController (see PROJECT.json findings).
CONSTANTS
    Apps <- MCApps
    MaxCalls = 4
    MaxConn = 1
    MaxEvents = 2
    SlaveConnAdv = FALSE
    AdvIntervals <- MCAdvIntervals
    ScanWindows <- MCScanWindows
    LocalFailures = FALSE
SPECIFICATION Spec
INVARIANT HostTracksController
\* The API thread makes MaxCalls calls and then stops.
CHECK_DEADLOCK FALSE
