CONSTANTS
  Ports = {1, 2}
  Params <- MCParams
  Logs <- MCLogs
  MinLog <- MCMinLog
SPECIFICATION Spec
INVARIANT SyncIntervalAsClaimed
CHECK_DEADLOCK FALSE
