SPECIFICATION ChecksSpec
CONSTANTS
  Lines <- MCLines
  OtherLines <- MCOtherLines
  ValueFlags = {"--method", "--contains", "--cwd", "--name"}
  Switches = {"--exists"}
  InlineName <- MCInlineName
  Files = {f1, f2}
  Pieces = {"a", "b"}
  WantedText <- MCText
  ReadLimit = 2
  MaxPieces = 3
  NumberOf <- MCNumberOf
  NaN = NaN
  Spelling <- MCSpelling
  Responses <- MCResponses
  Statuses <- MCStatuses
  Expressions <- MCExpressions
  MaxRedirects = 1
  DNSRequests <- MCDNSRequests
  Zones <- MCZones
  HostName = "host."
  Canonical <- MCCanonical
  Containing = {"ip2", "Alias."}
  K8sRequests <- MCK8sRequests
  MaxGeneration = 3
  MaxPods = 3
  Containers <- MCContainers
  Descendants = {d1, d2}
  ExitCodes = {0, 7}
  Expected = 7
INVARIANTS
  GuardedExecKeepsCommand
CHECK_DEADLOCK FALSE
