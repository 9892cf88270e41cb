SPECIFICATION Spec
CONSTANTS
  Ops = {o1}
  LocalKinds = {"edit_reconcile"}
  ExternalKinds = {"notification"}
  w1 = w1
  w2 = w2
  Workers = {w1, w2}
  Registered <- MCRegistered
  MaxAttempts = 2
  BatchLimit = 2
  MaxNotReady = 0
  MaxFaults = 2
INVARIANTS
  TypeOK
  ExecutedOnce
  ReceiptMatchesDone
  LiveHolderKeepsClaim
  TerminalReviewed
  RankedExecution
PROPERTIES
  OwnerUndisturbed
  ImplementsContract
CHECK_DEADLOCK FALSE
