\* Nothing goes wrong: the app is quit and started again.
CONSTANTS
    MaxApps = 2
    MaxRestarts = 1
    MaxFaults = 0
SPECIFICATION FairSpec
CHECK_DEADLOCK FALSE
PROPERTIES
    RelaunchServes
