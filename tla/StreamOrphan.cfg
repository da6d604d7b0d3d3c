SPECIFICATION FairSpec
CONSTANTS
  Cameras = {c1}
  low = low
  sd = sd
  Qualities = {low, sd}
  Configs <- SameQuality
  Served <- SameQuality
  Jobs = {j1, j2}
  NoJob = NoJob
  Unlisted = Unlisted
  MaxRestarts = 1
  MaxChanges = 2
  MaxExits = 0
  MaxFaults = 0
PROPERTY StoppedMeansStopped
