SPECIFICATION Spec
CONSTANTS
 Pids = {1,2,3}
 Root = 1
 Rows = {1,2}
 Selective = TRUE
 Generations = 2
 Codes = {1}
 MaxCalls = 2
 MaxKills = 1
 NoCall = NoCall
 NoPid = NoPid
INVARIANTS CacheIsTrue PendingIsCounted EndsWithLast
CHECK_DEADLOCK FALSE
PROPERTIES StoppedGoesOn Returns
