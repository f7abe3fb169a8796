SPECIFICATION Spec
CONSTANTS
  Ids = {r1, r2, r3}
  NoId = NoId
  ImageSizes = {1}
  ChunkCounts = {1}
  ChunkSizes = {1}
  DataSizes = {1}
  Kinds = {"upload_start", "upload_chunk", "upload_finish", "update_image", "reboot"}
  MaxQueue = 1
  MayDie = FALSE
INVARIANT UploadNeverDuringUpdate
