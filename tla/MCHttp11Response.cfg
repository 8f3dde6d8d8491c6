CONSTANTS
  Name       <- Names
  Lower      <- LowerOf
  EmptyName  = ""
  Value      = {"v", ""}
  EmptyValue = ""
  Code       = {200, 404}
  OK         = 200
  Capacity   = 2
  MaxWrite   = 2
  MaxBody    = 3
  MaxOps     = 4
  MaxFaults  = 2
SPECIFICATION Spec
INVARIANTS WireInOrder Accounted FaultsOnly HeadFaithful
CONSTRAINT Bounded
CHECK_DEADLOCK FALSE
