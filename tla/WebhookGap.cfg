SPECIFICATION WebhookSpec
CONSTANTS
  Pollers = {loop}
  OneShots = {}
  MaxTx = 3
  MaxEvents = 1
  Limit = 1
  MaxPages = 1
  MaxAttempts = 1
  MaxLag = 0
  MaxFaults = 0
PROPERTY AtLeastOnce
CHECK_DEADLOCK FALSE
