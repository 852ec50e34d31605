CONSTANT Restartable = TRUE
SPECIFICATION LifeFairSpec
INVARIANT NoRelaunchMidInstall
PROPERTIES RelaunchWasAsked RestartHappens
CHECK_DEADLOCK FALSE
