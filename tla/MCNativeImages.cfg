CONSTANTS
  Files <- MCFiles
  DeviceName <- MCDeviceName
  Needs <- MCNeeds
  Packaged <- MCPackaged
  BuildOf <- MCBuildOf
  Rebuilds <- MCRebuilds
  Group <- MCGroup
  Built <- MCBuilt
  Place <- MCPlace
  Absolute <- MCAbsolute
  Environments <- MCEnvironments
  Cwds <- MCCwds
  Requests <- MCRequests
  TensorBackend = "cuda_sm80"
  ResidualDeliveries = {"scalar", "full-chunk"}
  WyDeliveries = {"scalar"}
  RunningVersion = 1
  MaxReplaced = 3
  MaxModules = 2
SPECIFICATION Spec
CHECK_DEADLOCK FALSE
INVARIANTS ReportTruthful ReportMatchesManifest SelectionHonoured RightBinaryRuns
