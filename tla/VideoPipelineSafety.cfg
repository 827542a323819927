SPECIFICATION Spec
CONSTANTS
  v1 = v1
  c1 = c1
  c2 = c2
  Videos = {v1}
  Clients = {c1, c2}
  NoVideo = NoVideo
  Lanes = {FALSE}
  MaxProcessingAttempts = 2
  UploadTimeout = 1
  QueuedStallTimeout = 1
  QueuedMaxTimeout = 2
  ProcessingTimeout = 1
  MaxAge = 3
  MaxLog = 2
SYMMETRY ClientSymmetry
INVARIANTS
  TypeOK
  QueuedWorkIsNeverLost
  OneRowPerAttempt
  ProcessableHasOriginal
  ReadyIsServable
  CleanupSparesLiveVideos
  TemporaryMeansExhausted
PROPERTY ImplementsLifecycle
