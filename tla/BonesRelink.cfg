SPECIFICATION MCChainSpec
CONSTANTS
  None = None
  CircularLimit = 5
  MAXSTUDIOBONES = 6
  Sessions = {s1, s2}
  First = s1
  MaxLines = 3
  PipeCapacity = 1
  MaxUserActs = 1
PROPERTY Relinked
