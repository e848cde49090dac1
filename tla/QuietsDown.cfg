SPECIFICATION FairSpec
CONSTANTS
  Fast = 2
  MaxFlips = 3
  MaxFaults = 2
PROPERTY QuietsDown
PROPERTY ReportsLast
