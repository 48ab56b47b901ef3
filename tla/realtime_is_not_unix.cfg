SPECIFICATION Spec
CONSTANTS
  Days <- MCDays
  Seconds <- MCSeconds
  Zones <- MCZones
  Years <- MCYears
  Globs <- MCGlobs
  Opens <- MCOpens
  Strings <- MCStrings
  Units <- MCCodeUnits
  Places <- MCPlaces
  Images <- MCImages
  Width = 17
  Height = 12
  MapThreads = {m1, m2}
  FileLength = 2
  MaxLength = 2
  MaxOffset = 2
  Scanners = {d1, d2}
  MaxEntries = 5
  FirstCapacity = 2
  MaxSize = 3
  MaxBytesRead = 6
  MaxLeaks = 2
  Steps = {0, 250000, 1000000}
  MaxTime = 2000000
  DelayTicks = 3
  MaxLatency = 2
  ShaderIds = {sh1, sh2}
  Sources = {t1, t2}
  NoSource = none
  MaxSets = 2
  MaxSwaps = 13
  Window = 6
  PoolSize = 20
  Address = {0, 1, 2, 3, 4, 5, 6, 7, 8, 9}
  PageBase = 4
  PageSize = 2
  MaxDepth = 3
INVARIANT RealtimeIsUnix
CHECK_DEADLOCK FALSE
