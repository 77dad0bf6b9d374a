CONSTANTS
  Pipes <- ReleasePipeline
  Publishers <- PublishPipeline
  Continuable <- ContinuablePublishers
  Announcers <- FirstAnnouncers
SPECIFICATION Spec
INVARIANTS AnnouncedMeansPublished LocalStaysLocal LaterNeedsEarlier ExitIsHonest
CHECK_DEADLOCK FALSE
