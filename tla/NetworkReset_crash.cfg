SPECIFICATION Spec
CONSTANTS
  Ethernet = {eth}
  Can = {can}
  Files = {a, b}
  NetworkFiles <- MCNetworkFiles
  MaxValue = 1
  MayFail = {"restore contents", "recovery reload", "recovery clean", "stage", "replace", "reload", "promote"}
  None = None
  eth = eth
  can = can
  a = a
  b = b
PROPERTIES
  KeepsSettings
  LoadedBeforeForgotten
