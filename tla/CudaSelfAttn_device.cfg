\* One layer on the device, three slots, prompts of one and of three rows.
SPECIFICATION Spec
CONSTANTS
  MaxInt = 24
  MaxActive = 3
  PrefillBatch = 2
  PromptRows = {1, 3}
  MaxRows = 5
  Hidden = 2
  Kv = 1
  MinBytes = 2
  MinCacheLen = 2
INVARIANTS
  OutputOfThisCall
  ReplaysLiveAddresses
