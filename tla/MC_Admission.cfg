SPECIFICATION Spec
CONSTANTS
  Session = {w1, w2}
  Scenarios <- Instances
  Recipient <- Recipients
  Code <- Codes
  r1 = r1
  r2 = r2
  c1 = c1
  c2 = c2
  NoCode = NoCode
  NoReceipt = NoReceipt
  NoRequest = NoRequest
  NoAnswer = NoAnswer
  MaxOperations = 2
  MaxAttempts = 3
  recipientCreateLimit15m = 1
  recipientSendLimit15m = 1
  deploymentSendLimit15m = 2
  sharedSendLimit24h = 2
  AdmissionWindow = 2
  Window = 2
  Day = 3
  resendCooldown = 1
  maxLifetime = 4
  ReceiptRetention = 4
  HistoryRetention = 0
  MaxClock = 4
SYMMETRY Symmetric
INVARIANTS QuotasHold RequestsAreIdempotent NoCodeOutlivesItsOperation
PROPERTY ImplementsContract
CHECK_DEADLOCK FALSE
