SPECIFICATION FairSpec
CONSTANTS
  Inodes = {i1, i2}
  None = None
  Starts = {"begin", "tail", "end"}
  TailLines = 2
  MinMatches = 2
  Matching = {"m", "whole"}
  ReadLimit = 2
  TailLimit = 3
  MaxWrites = 3
  MaxChanges = 2
INVARIANTS
  TypeOK
  CountedIsFile
  NewFileReadWhole
  CountsEveryLineOnce
PROPERTIES
  RereadsReplacedFiles
  TailIsLastLines
  QuietLogIsRead
