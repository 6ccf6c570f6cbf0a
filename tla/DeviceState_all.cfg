SPECIFICATION Spec
CONSTANTS
  Devices = {"phone", "custom", "door"}
  Hint <- HintDevices
  Servers = {"here", "there"}
  Local = "here"
  Reported <- ReportedStates
  Idle = "NOT_INUSE"
  Known = {"custom"}
  Asked = {"phone", "door"}
  MaxChanges = 2
  MaxFails = 1
INVARIANTS HintFollowsCache CacheFollowsDriver
PROPERTY Settles
