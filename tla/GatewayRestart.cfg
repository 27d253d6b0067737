SPECIFICATION MCGatewaySpec
CONSTANTS
    Tasks = {t1, t2}
    Lanes = {main}
    Limits = {}
    MaxGeneration = 2
    MayWait = TRUE
    MaxAsked = 2
    NoRun = NoRun
INVARIANTS GatewayTypeOK RefusesOnlyForRestart OneServer
PROPERTIES DisownedAfterWait ShutdownsEnd AskedIsServed
CHECK_DEADLOCK FALSE
