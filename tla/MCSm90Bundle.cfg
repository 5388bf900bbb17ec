CONSTANTS
  Configurations <- MCConfigurations
  Order <- MCOrder
  Rows <- MCRows
  Default = "control"
  Shapes = {"measured", "other"}
  MaxVersion = 2
  None = None
SPECIFICATION Spec

PROPERTY PublishedWhole
INVARIANTS ReceiptTruthful OneBuild DispatchedConfiguration
