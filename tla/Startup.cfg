SPECIFICATION FairSpec
CONSTANT MaxFaults = 3
CHECK_DEADLOCK FALSE
PROPERTY Serves
