SPECIFICATION FairSpec
CONSTANTS
  FrameLen = 3
  BufFrames = 2
  Window = 5
  Serials = 4
  CloseWait = 1
  Faults = {"leave", "reset", "partial", "busy", "init", "io", "close"}
INVARIANTS ServerInv
PROPERTIES InOrder ImplementsQueue Relistens StopObeyed
