SPECIFICATION MCSpec
CONSTANTS
  w1 = w1
  n1 = n1
  n2 = n2
  nvme0 = nvme0
  Alone = Alone
  Kinds <- MCKinds
  Controllers = {nvme0}
  On <- MCOn
  Plans <- MCPlans
  MaxJobs = 3
  MaxStops = 1
  MaxRestarts = 1
  Wipes = {w1}
  Drives <- MCDrives
  Wants = {"auto", "crypto", "secure", "overwrite"}
  Worlds = {"sound", "refuses", "unreadable"}
  MaxCrashes = 1
  MaxTroubles = 1
INVARIANTS
  WipedIsErased
  LeftoversNamed
  WipesAreKept
  OneVerdict
  TurnsAreTaken
PROPERTIES
  WipesRecorded
  QueueForgetsNothing
  LastTraceWatched
CHECK_DEADLOCK FALSE
