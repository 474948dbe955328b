SPECIFICATION Spec
CONSTANTS
  Budget = 6
  FrameHeader = 2
  Floor = 5
  UsefulCap = 2
  Lead = 2
  Body <- MCBody
  Withholds = {0, 1, 3}
  ConnWindow = 4
  Windows = {1, 3}
  Window = 3
  MaxWindow = 6
  Grants = {2}
  MaxFrames = 3
  MaxInbox = 2
  MaxFaults = 1
INVARIANTS
  CreditConserved
  NoLostCredit
PROPERTIES
  SharedRelease
  SendReturns
