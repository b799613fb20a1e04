SPECIFICATION Spec
CONSTANTS
  Depth = 2
  Consumer = {c1}
  Sport = {"tennis", "football"}
  MaxQueue = 2
  Price = {1, 2, 3}
  MySport = "tennis"
  MaxTv = 3
  MaxWire = 2
INVARIANTS TypeOK LaddersAgree BestIsBest NothingMissed
PROPERTY NeverBackwards
