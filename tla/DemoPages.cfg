CONSTANTS
  Scenarios <- Representatives
  BatchPattern = "redirect"
  MaxRuns = 2
  MaxFailures = 1
  SandboxCalls = {"c", "d"}
  Used = {"session-create", "place-order", "capture", "afterpay-checkout"}
  MaxMade = 2
  MaxLost = 1
  MaxClears = 1
  MaxLines = 4
  Activations = {"first", "second"}
  MaxPolls = 2
  None = None
  Apms = {"paypal", "venmo"}
  Device = {"applepay"}
  First = "applepay"
  Catalog <- Shelf
  MaxClicks = 3
  Creds = {"x", "y"}
  Tabs = {"sdk", "events"}
  SdkLoads = {1, 2}
  MaxMoves = 3
SPECIFICATION DemoSpec
INVARIANTS
  EndsAsExpected
  OneArrowEach
  LogTellsTruth
  OneTimer
  ButtonOfItsApm
  PlayedWhole
PROPERTIES
  PendingSettles
  ViewCatchesUp
  LoadEnds
  LoadedIsShown
CHECK_DEADLOCK FALSE
