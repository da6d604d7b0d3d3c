SPECIFICATION FairSpec
CONSTANTS
  Cameras = {c1}
  low = low
  sd = sd
  Qualities = {low, sd}
  Configs <- OneConfig
  Served <- OneConfig
  Jobs = {j1, j2}
  NoJob = NoJob
  Unlisted = Unlisted
  MaxRestarts = 1
  MaxChanges = 1
  MaxExits = 1
  MaxFaults = 0
PROPERTY SweptJobStops
PROPERTY SteadyStreams
