SPECIFICATION LiveSpec
CONSTANTS
  FeedKinds <- ThreeKinds
  MAX_BACKOFF = 3
  QueueLimit = 2
  MaxFrames = 3
  MaxAttempts = 4
  MaxRestarts = 1
INVARIANTS TopicsInOrder AttemptsArePaced SilentLossIsBehindRefusal
PROPERTIES FramesSettle KeepsSubscribing
