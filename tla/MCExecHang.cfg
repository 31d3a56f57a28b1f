SPECIFICATION FairSpec
CONSTANTS
  Descendants = {d1}
  ExitCodes = {0}
  Expected = 0
PROPERTIES
  ReturnsWhenCancelled
