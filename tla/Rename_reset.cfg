SPECIFICATION Spec
CONSTANTS
  ItemCount = 3
  Depth <- MCDepth
  Criteria = {"blank", "plain", "dated", "malformed"}
  Blank = "blank"
  Dated = {"dated"}
  Malformed = {"malformed"}
  Name = {"a", "b", "c"}
  Originally <- MCOriginally
  Replaced <- MCReplaced
  MaxChanges = 2
  MaxRenames = 2
INVARIANTS FailureResetsNames
CHECK_DEADLOCK FALSE
