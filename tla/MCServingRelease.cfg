CONSTANTS
  Target = "ppu10"
  HostTests <- MCHostTests
  FlareTests <- MCFlareTests
  JunitRuns <- MCJunitRuns
  DeviceRuns <- MCDeviceRuns
  Installations <- MCInstallations
  Devices <- MCDevices
  MaxEdits = 2
  MaxCommits = 1
  MaxBuilds = 2
  MaxQualifications = 1
  None = None
SPECIFICATION Spec
CHECK_DEADLOCK FALSE
INVARIANTS CleanReceiptNamesRevision VerdictHasEvidence PublishedQualified
