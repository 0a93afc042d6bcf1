SPECIFICATION SSpec
CONSTANTS
  d = d
  rs1 = rs1
  rs2 = rs2
  alone = alone
  ss = ss
  None = None
  Controller = {d, rs1, rs2, alone, ss}
  Kind <- KindIn
  ParentOf <- ParentIn
  Refs <- RefsIn
  MaxScale = 1
  MaxChanges = 1
INVARIANTS
  STypeOK
  ExpectedIsTheSum
  NoPodLeftOut
  CountsNothingTwice
PROPERTIES
  CallReturns
