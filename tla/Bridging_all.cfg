SPECIFICATION FairSpec
CONSTANTS
  Chans = {"a", "b", "c"}
  Uses <- AllUses
  MaxDigits = 1
  MaxCalls = 1
  Client = "client"
  Nobody = "nobody"
CHECK_DEADLOCK FALSE
INVARIANTS ArrayExact TechnologyExact FreedUnused
PROPERTIES FrozenWhileWaiting LeavesWhenTold
