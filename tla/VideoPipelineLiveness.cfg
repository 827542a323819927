SPECIFICATION FairSpec
CONSTANTS
  v1 = v1
  c1 = c1
  Videos = {v1}
  Clients = {c1}
  NoVideo = NoVideo
  Lanes = {FALSE}
  MaxProcessingAttempts = 2
  UploadTimeout = 1
  QueuedStallTimeout = 1
  QueuedMaxTimeout = 2
  ProcessingTimeout = 1
  MaxAge = 3
  MaxLog = 1
PROPERTY EveryVideoSettles
