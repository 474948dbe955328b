SPECIFICATION Spec
CONSTANTS
  g1 = g1  g2 = g2  a = a  b = b  c = c
  Groups = {g1, g2}
  Members <- MCMembers
  Plans <- MCPlans
  LastByte = {g1}
  Interval = 1
  MaxFlips = 1
  MaxFaults = 1
INVARIANTS
  Explained
PROPERTIES
  GatesHold
  GroupsEnd
CHECK_DEADLOCK FALSE
