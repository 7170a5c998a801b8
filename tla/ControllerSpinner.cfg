SPECIFICATION Spec
CONSTANTS
    MaxFaults = 0
    MaxRepeats = 0
INVARIANT SettledStopsSpinner
CHECK_DEADLOCK FALSE
