SPECIFICATION FairSpec
CONSTANTS
    Triggers <- TheTriggers
    None = None
    ShutdownWait = 1
    MaxUpdates = 2
    MaxWaiting = 1
    Timeouts = {1, 3}
    Graces = {1, 2}
    Overhead = 1
    Slack = 4
    MinBudget = 5
    MaxRestarts = 1
    MaxSignals = 1
INVARIANTS
    TypeOK
    AtMostOneMore
    PassMeansWell
    BadMeansSick
    NotCutShort
PROPERTIES
    ShutsDown
