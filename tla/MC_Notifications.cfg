SPECIFICATION FairSpec
CONSTANTS
  Handler = {h1, h2, h3}
  attemptLimit = 3
  MaxReplays = 2
INVARIANTS DeliveredIsAcknowledged
PROPERTIES ClaimIsExclusive NotificationSettles
