\* The app is started twice, a server restarted once, and one thing goes wrong.
CONSTANTS
    MaxApps = 2
    MaxRestarts = 1
    MaxFaults = 1
SPECIFICATION FairSpec
\* The app need not be started again.
CHECK_DEADLOCK FALSE
INVARIANTS
    TypeOK
    
    AdvertIsWithdrawn
    OwnServerIsManaged
PROPERTIES
    ServiceComesUp
