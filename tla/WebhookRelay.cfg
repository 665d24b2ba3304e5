SPECIFICATION FairWebhookSpec
CONSTANTS
  Pollers = {loop}
  OneShots = {cron}
  MaxTx = 3
  MaxEvents = 2
  Limit = 1
  MaxPages = 3
  MaxAttempts = 2
  MaxLag = 1
  MaxFaults = 1
INVARIANTS
  WebhookTypeOK
  NothingSkipped
  ResumesNear
PROPERTY ImplementsRelay
CHECK_DEADLOCK FALSE
