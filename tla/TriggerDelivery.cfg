SPECIFICATION FairSpec
CONSTANTS
  Trigger = {t1, t2}
  RescanLimit = 1
  MaxCrashes = 2
INVARIANTS TypeOK OneRunPerTrigger ProcessingHasWorker
PROPERTIES FollowsAtLeastOnce EveryTriggerTried BegunIsFinished
