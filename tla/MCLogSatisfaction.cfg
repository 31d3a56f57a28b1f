SPECIFICATION Spec
CONSTANTS
  Inodes = {i1, i2}
  None = None
  Starts = {"begin"}
  TailLines = 1
  MinMatches = 2
  Matching = {"m", "whole"}
  ReadLimit = 2
  TailLimit = 2
  MaxWrites = 2
  MaxChanges = 0
PROPERTIES
  SatisfiedOnceReached
