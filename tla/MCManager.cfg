CONSTANTS
  None = None
  Keys = {"ipv4"}
  Values = {"v1", "v2"}
  OsName = "Linux"
  HostName = None
  Ips <- MCIps
  ProcessNo = "1"
  Factors = {0, 1, 3}
  UserProperties <- MCUserProperties
  MaxCalls = 3
SPECIFICATION Spec
CHECK_DEADLOCK FALSE
INVARIANTS TypeOK ReportedAsBuilt
PROPERTIES PropertiesEveryFactor BeatsGoOn
