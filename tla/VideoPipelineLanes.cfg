SPECIFICATION Spec
CONSTANTS
  v1 = v1
  v2 = v2
  c1 = c1
  Videos = {v1, v2}
  Clients = {c1}
  NoVideo = NoVideo
  Lanes = {FALSE, TRUE}
  MaxProcessingAttempts = 1
  UploadTimeout = 1
  QueuedStallTimeout = 2
  QueuedMaxTimeout = 3
  ProcessingTimeout = 1
  MaxAge = 4
  MaxLog = 1
SYMMETRY VideoSymmetry
CONSTRAINT NoneSettled
PROPERTY FreshDequeueProtectsLane
