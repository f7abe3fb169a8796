SPECIFICATION Spec
CONSTANTS
  Ids = {r1, r2}
  NoId = NoId
  ImageSizes = {1}
  ChunkCounts = {1}
  ChunkSizes = {1}
  DataSizes = {1}
  Kinds = {"write", "safety_write", "upload_start", "upload_chunk", "upload_finish", "update_image", "reboot", "reset"}
  MaxQueue = 1
  MayDie = FALSE
PROPERTIES
  ResetEnds
  ServesInOrder
