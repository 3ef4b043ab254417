CONSTANTS
  num_threads = 2
  Logs <- MCLogs
  TopN = 2
  FaultKinds = {"opendir", "realloc", "tables", "create", "thread", "open", "url", "node", "referer", "merge", "array", "line", "url_name", "referer_name", "merge_name"}
  HASH_TABLE_SIZE = 2
  hash_string <- MCHash
  MaxFaults = 2
  NoOne = NoOne
  NoReport = NoReport
SPECIFICATION LogFairSpec
INVARIANTS TakenOnce ReportRight
PROPERTIES ImplementsTally MainEnds
CHECK_DEADLOCK FALSE
