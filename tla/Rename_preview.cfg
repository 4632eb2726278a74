SPECIFICATION Spec
CONSTANTS
  ItemCount = 3
  Depth <- MCDepth
  Criteria = {"blank", "plain", "dated", "malformed"}
  Blank = "blank"
  Dated = {"dated"}
  Malformed = {"malformed"}
  Name = {"a", "b", "c"}
  Originally <- MCOriginally
  Replaced <- MCReplaced
  MaxChanges = 2
  MaxRenames = 1
INVARIANTS TypeOK PreviewFollowsCriteria ButtonFollowsCount ListFollowsDisk RenamesAsPromised
PROPERTY WindowAnswers
CHECK_DEADLOCK FALSE
