SPECIFICATION Spec
CONSTANTS Targets = {"A", "B"}
          Snapshots = {1, 2, 3}
          TargetOf <- MCTargetOf
          Host <- MCHost
          RawData <- Worlds
          MaxExtra = 1
INVARIANTS TraceroutesKept OneShownComplete RowsReachGraph
PROPERTIES OthersUntouched
CHECK_DEADLOCK FALSE
