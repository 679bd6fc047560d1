SPECIFICATION Spec
CONSTANTS
  MaxWords = 5
  Default = "D"
  Roots = {"D", "X"}
  Files = {1, 2}
  Desktop = "desktop"
  Headless = "wla"
  NoRoot = "none"
  DataBudgets <- MCDataBudgets
  Addresses = {"a", "b"}
  Checks = {1, 2}
  NoAddress = "none"
  NetBudgets <- MCNetBudgets
  MaxEvents = 2
  FeedBudgets <- MCFeedBudgets
  Packages = {"a", "b", "c", "d"}
  Broken = {"b"}
  PluginOf <- MCPluginOf
  VersionOf <- MCVersionOf
  LabelOf <- MCLabelOf
  MaxLeftovers = 1
  Sources = {"s"}
  Uploads = {"u1", "u2"}
  Batches = {"b1", "b2"}
  NoPackage = "none"
  ImportBudgets <- MCImportBudgets
  Limit = 2
  Verifiers = 3
  ScanBudgets <- MCScanBudgets
CHECK_DEADLOCK FALSE
INVARIANTS LinesAgree UserDataSafe SettingsKept UpdateIsCurrent NoSilentGap ImportsSound RetriesAreSound RestoreNotForgotten
