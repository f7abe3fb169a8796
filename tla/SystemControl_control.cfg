SPECIFICATION Spec
CONSTANTS
  Ids = {r1, r2, r3, r4}
  NoId = NoId
  ImageSizes = {2, 3}
  ChunkCounts = {1, 2}
  ChunkSizes = {1, 2}
  DataSizes = {1, 2}
  Kinds = {"read", "write", "safety_read", "safety_write", "upload_start", "upload_chunk", "upload_finish", "update_image", "reboot", "read_status", "reset"}
  MaxQueue = 2
  MayDie = TRUE
SYMMETRY Symmetry
INVARIANTS
  NeverThrows
  OneOperationAtATime
  ToolsOnlyWhileStopped
  ResetTimersOwned
  LateExitNeverSucceeds
  CommittedMeansLocked
  ImageAsClaimed
  UploadAccounting
PROPERTIES
  NothingStartsAfterCommit
  FinishedUploadSurvives
