SPECIFICATION Spec
CONSTANTS
  Cameras = {c1}
  low = low
  sd = sd
  Qualities = {low, sd}
  Configs <- SameQuality
  Served <- SameQuality
  Jobs = {j1, j2}
  NoJob = NoJob
  Unlisted = Unlisted
  MaxRestarts = 1
  MaxChanges = 1
  MaxExits = 1
  MaxFaults = 1
SYMMETRY JobSymmetry
INVARIANT TypeOK
INVARIANT TrackedIsLive
INVARIANT SteadySingleStream
