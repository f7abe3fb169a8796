SPECIFICATION Spec
CONSTANTS
  MaxChunks = 3
  MaxConnections = 2
  MaxRequests = 3
  MaxResponses = 1
  MaxDown = 2
  MaxUp = 1
  Sends = {"pcap_write", "pcap_read"}
  Opening = {"control", "pcap_interfaces", "unknown", "invalid"}
  MayRestrict = TRUE
CHECK_DEADLOCK FALSE
INVARIANTS
  AnswersOwnConnection
  CaptureOfItsClient
  NoContextForgotten
  CaptureKeepsContext
  WaitsOnlyWhileBusy
  
PROPERTIES
  TransferEnds
  DeliversReliably
