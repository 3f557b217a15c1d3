SPECIFICATION Spec
CONSTANTS
  t1 = t1
  t2 = t2
  none = none
  NoThread = none
  Threads <- MCThreads
  Dirs <- MCDirs
  FirstPath <- MCFirst
  Files <- MCFiles
  Distributions <- MCDistributions
  Listed <- MCListed
  Depth <- MCDepth
  Apps <- MCApps
  UserSize = 2
  MaxFrames = 3
  MaxSwitches = 2
INVARIANTS TypeOK NotBehind OneLayer HandlerNamed UserFrameNamed
PROPERTY Answered
CHECK_DEADLOCK FALSE
