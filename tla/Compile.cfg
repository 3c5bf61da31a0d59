SPECIFICATION MCSpec
CONSTANTS
  None = None
  CircularLimit = 5
  MAXSTUDIOBONES = 6
  Sessions = {s1, s2}
  First = s1
  MaxLines = 3
  PipeCapacity = 1
  MaxUserActs = 1
INVARIANTS WeightsKept ReplacedGone BonesSetUp LogWhole FolderAsFound
PROPERTIES SortedOrRejected SkeletonKept LoopsEnd Returns
