SPECIFICATION SettingsFairSpec
CONSTANTS
  Keys <- TwoKeys
  Ttl = "file_ttl_minutes"
  Values = {"5", "5 min"}
  Unreadable = {"5 min"}
  Absent = "absent"
  Admins = {"a1", "a2"}
  MaxPatches = 2
  MaxRestarts = 1
CHECK_DEADLOCK FALSE
INVARIANT CacheIsSound
PROPERTIES CacheCatchesUp GuestsArePurged
