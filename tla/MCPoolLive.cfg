SPECIFICATION FairSpec
CONSTANTS
  Conn = {c1, c2, c3}
  KeepAlive = 2
  MaxCount = 2
  MaxRequest = 1
  PromptShrink = TRUE
  MaxShrinks = 1
  MaxFaults = 1
  MaxLost = 1

  
PROPERTIES
  EveryConnectionUsed
  
