SPECIFICATION Spec
CONSTANTS
  Configs = {factory, site}
  Values = {low, high}
  Missing = Missing
  Broken = Broken
  Blank = Blank
  Ids = {id1, id2}
  NoId = NoId
  NoFile = NoFile
  CutOff = CutOff
  Host = Host
  MaxRequests = 3
INVARIANTS SshStaysClosed SavedMeansInstalled WriteKeepsConfiguration
